---- MODULE Spec2Model ----
(***************************************************************************)
(* Model of the s3tar lifecycle scripts.                                   *)
(*                                                                         *)
(*   generate.py   imports inventory rows into the catalog (s3_paths).     *)
(*   archivev2.py  catalog driver: archive stage and delete stage.         *)
(*   s3tar.py      live-listing pipeline with a JSON state file.           *)
(*                                                                         *)
(* Strings are token sequences: a destination path                         *)
(* f"archive/{origin}/{y}-{m}-{d}.tar" is                                  *)
(* <<"a","rchive", origin..., y, "-", m, "-", d, ".tar">>, so that its      *)
(* first character, its last "/"-segment and its ".tar" suffix are what    *)
(* the code's indexing, split and replace see.  An object key is a         *)
(* sequence of "/"-segments, each a record [k, eq, v] for the text         *)
(* k ++ eq ++ v (k and eq empty for a plain segment).                      *)
(***************************************************************************)
EXTENDS Integers, Sequences, FiniteSets, TLC

VARIABLES
    variant,        \* which script family this behaviour runs
    ignoredColumn,  \* does table s3_paths have the column "ignored"
    db,             \* committed rows of s3_paths
    conn,           \* rows as seen by the running driver's connection
    run,            \* the running catalog driver: stage, config, work list
    tmp,            \* manifest files under tmp/: name -> rows
    store,          \* source object keys present in the bucket (under raw/)
    artifacts,      \* keys of the other objects of the bucket (archives)
    now,            \* today, as a day number of the year 2024
    runs,           \* number of script runs started so far
    archiverCalls,  \* log of s3tar invocations
    deleteCalls,    \* log of remote delete calls
    lastStep,       \* what the last driver step did (observation only)
    live,           \* state of the live-listing pipeline (s3tar.py)
    bulk,           \* state of the bulk delete (delete.py)
    call,           \* the last direct application of a function and its result
    pool,           \* the tasks handed to worker threads and the checkpoint writes
    tarred          \* keys listed in the manifest of an s3tar run of archivev2.py
                    \* that succeeded, each with the destination path

vars == <<variant, ignoredColumn, db, conn, run, tmp, store, artifacts, now, runs,
          archiverCalls, deleteCalls, lastStep, live, bulk, call, pool, tarred>>

----------------------------------------------------------------------------
(* Bounds *)

\* runs of archivev2.py over the catalog
MaxRuns == 2
\* runs of s3tar.py
MaxLiveRuns == 1
\* direct calls of build_csv and delete_object
MaxCalls == 1
\* the last day the clock reaches
MaxNow == 101
\* keys of the largest manifest or path list handed to the delete functions
MaxKeys == 2001
\* chunks of the largest CSV of the bulk delete
MaxChunks == 2
\* runs of delete.py
MaxBulkRuns == 2
\* runs of s3tar.py over a listing of several pages
MaxPagedRuns == 2

(* Program constants *)

DaysThreshold == 90
batch_size == 1000
FirstNow == 100

----------------------------------------------------------------------------
(* Generic helpers *)

RECURSIVE SeqToSet(_)
SeqToSet(s) == IF s = <<>> THEN {} ELSE {Head(s)} \cup SeqToSet(Tail(s))

RECURSIVE Perms(_)
Perms(S) ==
    IF S = {} THEN {<<>>}
    ELSE UNION {{<<x>> \o p : p \in Perms(S \ {x})} : x \in S}

Prefix(s, n) == IF n >= Len(s) THEN s ELSE SubSeq(s, 1, n)

----------------------------------------------------------------------------
(* Object keys and inventory rows *)

Seg(v) == [k |-> "", eq |-> "", v |-> v]
KV(k, eq, v) == [k |-> k, eq |-> eq, v |-> v]

DigitTokens == {"2024", "01", "1", "02", "2", "03", "3", "10", "11"}

ToInt(t) ==
    CASE t = "2024" -> 2024
      [] t \in {"01", "1"} -> 1
      [] t \in {"02", "2"} -> 2
      [] t \in {"03", "3"} -> 3
      [] t = "10" -> 10
      [] t = "11" -> 11

RawKey(obj, eq, y, m, d, file) ==
    <<Seg("raw"), Seg("acme"), Seg("short"), Seg(obj),
      KV("year", eq, y), KV("month", eq, m), KV("day", eq, d),
      Seg("appflow"), Seg(file)>>

InvRow(key, size) == [bucket |-> "b", path |-> key, size |-> size, date |-> "t"]

RowA1 == InvRow(RawKey("Contact", "%3D", "2024", "01", "02", "f1"), 10)
RowA2 == InvRow(RawKey("Contact", "=", "2024", "01", "02", "f2"), 0)
RowB1 == InvRow(RawKey("Contact", "=", "2024", "01", "10", "f1"), 5)
RowB2 == InvRow(RawKey("Contact", "=", "2024", "01", "10", "f2"), 6)
RowC1 == InvRow(RawKey("Contact", "=", "2024", "01", "03", "f1"), 0)

InputFiles == { <<RowA1, RowB1, RowC1>>, <<RowA2, RowB2, RowA1>> }

AllRows == UNION {SeqToSet(f) : f \in InputFiles}

\* inventory rows on the edges of the classification and validation rules:
\* partitions of the first day of a month (day=01 and day=1), a key without
\* a date, a dated key outside raw/
EdgeRow ==
    [d01a |-> InvRow(RawKey("Contact", "=", "2024", "01", "01", "f1"), 7),
     d01b |-> InvRow(RawKey("Contact", "=", "2024", "01", "01", "f2"), 8),
     d1 |-> InvRow(RawKey("Contact", "%3D", "2024", "1", "1", "f1"), 7),
     undated |-> InvRow(<<Seg("raw"), Seg("acme"), Seg("short"), Seg("Contact"),
                          Seg("appflow"), Seg("f1")>>, 7),
     other |-> InvRow(<<Seg("other"), Seg("acme"), Seg("short"), Seg("Contact"),
                        KV("year", "=", "2024"), KV("month", "=", "01"),
                        KV("day", "=", "02"), Seg("appflow"), Seg("f1")>>, 7)]

EdgeFiles ==
    { <<EdgeRow.d01a, EdgeRow.d01b>>, <<EdgeRow.d1>>, <<EdgeRow.undated, RowA1>>,
      <<EdgeRow.other>>, <<RowB1, RowB2>>, <<RowA1, RowA2>> }

EdgeListed == {EdgeRow.d01a, EdgeRow.d01b, EdgeRow.d1, RowB1, RowB2}

\* objects of two object types under one company, on the same day
OriginRows ==
    {RowB1, RowB2, InvRow(RawKey("Account", "=", "2024", "01", "10", "f1"), 3)}

KnownRows == AllRows \cup EdgeListed \cup OriginRows

----------------------------------------------------------------------------
(* generate.py: path classifier *)

\* variant: replace("%3D", "=", 1), only the first occurrence is replaced
normalize_path_first(p) ==
    [i \in DOMAIN p |->
        IF p[i].eq = "%3D" /\ \A j \in 1..(i - 1) : p[j].eq # "%3D"
        THEN [p[i] EXCEPT !.eq = "="] ELSE p[i]]

normalize_path(p) ==
    [i \in DOMAIN p |-> IF p[i].eq = "%3D" THEN [p[i] EXCEPT !.eq = "="] ELSE p[i]]

IsDatePart(s, name) ==
    s.k = name /\ s.eq \in {"=", "%3D"} /\ s.v \in DigitTokens

DateMatches(p) ==
    {i \in 1..(Len(p) - 2) :
        /\ IsDatePart(p[i], "year")
        /\ IsDatePart(p[i + 1], "month")
        /\ IsDatePart(p[i + 2], "day")}

Min(S) == CHOOSE x \in S : \A y \in S : x <= y

extract_date_parts(p) ==
    IF DateMatches(p) = {} THEN <<"unknown", "unknown", "unknown">>
    ELSE LET i == Min(DateMatches(p)) IN <<p[i].v, p[i + 1].v, p[i + 2].v>>

SegTokens(s) == IF s.k = "" THEN <<s.v>> ELSE <<s.k, s.eq, s.v>>

RECURSIVE JoinSegs(_)
JoinSegs(p) == IF p = <<>> THEN <<>> ELSE SegTokens(Head(p)) \o JoinSegs(Tail(p))

StartsWithYear(s) == s.k = "year" /\ s.eq \in {"=", "%3D"}

extract_origin(p) ==
    LET rawAt == {j \in 1..(Len(p) - 1) : p[j].k = "" /\ p[j].v = "raw"} IN
    IF rawAt = {} THEN <<"unknown">>
    ELSE LET parts == SubSeq(p, Min(rawAt), Len(p))
             yearAt == {i \in 1..Len(parts) : StartsWithYear(parts[i])}
         IN IF yearAt = {} THEN <<"unknown">>
            ELSE LET i == Min(yearAt) - 1   \* 0-based index as in enumerate
                 IN IF i > 1 THEN JoinSegs(SubSeq(parts, 1, i - 1))
                    ELSE <<"unknown">>

destination_path(origin, dp) ==
    <<"a", "rchive">> \o origin \o <<dp[1], "-", dp[2], "-", dp[3], ".tar">>

----------------------------------------------------------------------------
(* generate.py: importer *)

NewRow(r, rows) ==
    LET np == normalize_path(r.path)
        dp == extract_date_parts(np)
        origin == extract_origin(np)
    IN [id |-> Cardinality(rows) + 1,
        path |-> np, year |-> dp[1], month |-> dp[2], day |-> dp[3],
        origin |-> origin, bucket |-> r.bucket,
        archived |-> 0, deleted |-> 0,
        destination_path |-> destination_path(origin, dp),
        size |-> r.size, date |-> r.date,
        ignored |-> 0]     \* column default; the INSERT does not name it

\* variant: INSERT OR REPLACE, a re-imported path gets a fresh row
InsertRowReplace(rows, r) ==
    {x \in rows : x.path # normalize_path(r.path)} \cup
        {[NewRow(r, rows) EXCEPT
            !.id = IF \E x \in rows : x.path = normalize_path(r.path)
                   THEN (CHOOSE x \in rows : x.path = normalize_path(r.path)).id
                   ELSE @]}

\* variant: a re-imported path adds its size to the cataloged row
InsertRowMergeSize(rows, r) ==
    IF \E x \in rows : x.path = normalize_path(r.path)
    THEN {IF x.path = normalize_path(r.path) THEN [x EXCEPT !.size = @ + r.size] ELSE x :
             x \in rows}
    ELSE rows \cup {NewRow(r, rows)}

\* variant: the table has no UNIQUE constraint on path
InsertRowAgain(rows, r) == rows \cup {NewRow(r, rows)}

InsertRow(rows, r) ==
    IF \E x \in rows : x.path = normalize_path(r.path)
    THEN rows                       \* UNIQUE constraint failed: continue
    ELSE rows \cup {NewRow(r, rows)}

RECURSIVE process_s3_csv(_, _)
process_s3_csv(rows, file) ==
    IF file = <<>> THEN rows
    ELSE process_s3_csv(InsertRow(rows, Head(file)), Tail(file))

----------------------------------------------------------------------------
(* archivev2.py: values handed around by the driver *)

Str(s) == [t |-> "str", v |-> s]
Tup1(s) == [t |-> "tuple", v |-> s]     \* a fetchall() row (s,)

\* x[0]: the element of a 1-tuple, the first character of a string
Index0(x) == IF x.t = "tuple" THEN Str(x.v) ELSE Str(<<Head(x.v)>>)

ReplaceTar(s) == [i \in DOMAIN s |-> IF s[i] = ".tar" THEN ".csv" ELSE s[i]]

\* variant: the archive stage's UPDATE names the deleted column
SetFlagWrongColumn(rows, dst, flag) ==
    {IF r.destination_path = dst
     THEN (CASE flag = "archived" -> [r EXCEPT !.deleted = 1]
             [] flag = "deleted" -> [r EXCEPT !.deleted = 1]
             [] flag = "ignored" -> [r EXCEPT !.ignored = 1])
     ELSE r : r \in rows}

SetFlag(rows, dst, flag) ==
    {IF r.destination_path = dst
     THEN (CASE flag = "archived" -> [r EXCEPT !.archived = 1]
             [] flag = "deleted" -> [r EXCEPT !.deleted = 1]
             [] flag = "ignored" -> [r EXCEPT !.ignored = 1])
     ELSE r : r \in rows}

clean_token(v) ==
    CASE v = "\"f3\"" -> "f3"
      [] v = "f4 " -> "f4"
      [] OTHER -> v

clean_string(p) ==
    [i \in DOMAIN p |-> [p[i] EXCEPT !.v = clean_token(@)]]

\* datetime(year, month, day) accepts the date
DateValid(y, m, d) == y >= 1 /\ m \in 1..12 /\ d \in 1..31

\* day number of a date; exact for January 2024, where all modelled
\* partitions lie
Ordinal(y, m, d) == (y - 2024) * 366 + (m - 1) * 31 + d

calculate_day_difference(today, y, m, d) == today - Ordinal(y, m, d)

WellFormedDst(s) ==
    /\ Len(s) >= 8
    /\ s[Len(s)] = ".tar"
    /\ s[Len(s) - 2] = "-"
    /\ s[Len(s) - 4] = "-"

validate_destination_path(rows, arg, today) ==
    IF arg.t # "str" THEN [res |-> "raise", rows |-> rows]   \* tuple has no split
    ELSE IF ~WellFormedDst(arg.v) THEN [res |-> "raise", rows |-> rows]
    ELSE
      LET s == arg.v
          n == Len(s)
          ys == s[n - 5]
          ms == s[n - 3]
          ds == s[n - 1]
      IN IF ~({ys, ms, ds} \subseteq DigitTokens)
         THEN [res |-> "raise", rows |-> rows]               \* int("unknown")
         ELSE
           LET year == ToInt(ys)
               month == ToInt(ms)
               day == ToInt(ds)
               ign == [res |-> "false", rows |-> SetFlag(rows, s, "ignored")]
           IN IF ~(\E i \in 1..n : s[i] = "raw") THEN ign
              ELSE IF day = 1 THEN ign
              ELSE IF ~DateValid(year, month, day)
                   THEN [res |-> "raise", rows |-> rows]
              ELSE IF ~(calculate_day_difference(today, year, month, day) > DaysThreshold)
                   THEN ign
              ELSE [res |-> "true", rows |-> rows]

RECURSIVE SortById(_)
SortById(rows) ==
    IF rows = {} THEN <<>>
    ELSE LET f == CHOOSE r \in rows : \A q \in rows : r.id <= q.id
         IN <<f>> \o SortById(rows \ {f})

ManifestLine(r) == [bucket |-> r.bucket, path |-> r.path, size |-> r.size, date |-> r.date]

RECURSIVE ManifestLines(_)
ManifestLines(rs) ==
    IF rs = <<>> THEN <<>>
    ELSE IF Head(rs).size > 0
         THEN <<ManifestLine(Head(rs))>> \o ManifestLines(Tail(rs))
         ELSE ManifestLines(Tail(rs))

WriteFile(files, name, content) ==
    [f \in DOMAIN files \cup {name} |-> IF f = name THEN content ELSE files[f]]

RemoveFile(files, name) == [f \in DOMAIN files \ {name} |-> files[f]]

build_csv(rows, arg, files) ==
    IF arg.t # "str"
    THEN [res |-> "raise", rows |-> rows, commit |-> FALSE,
          files |-> files, path |-> <<>>]       \* a tuple cannot be bound
    ELSE
      LET paths == SortById({r \in rows : r.destination_path = arg.v})
          temp_csv_path == <<"tmp">> \o ReplaceTar(Index0(arg).v)
          lines == ManifestLines(paths)
          written == WriteFile(files, temp_csv_path, lines)
      IN IF lines = <<>>
         THEN [res |-> "none",
               rows |-> SetFlag(rows, Index0(arg).v, "ignored"),
               commit |-> TRUE, files |-> written, path |-> temp_csv_path]
         ELSE [res |-> "path", rows |-> rows, commit |-> FALSE,
               files |-> written, path |-> temp_csv_path]

----------------------------------------------------------------------------
(* archivev2.py: archive_object and delete_object *)

full_dst_path(bucket, dst) == <<"s3://", bucket>> \o dst

\* the object the archiver writes for -f s3://<bucket>/<key>
ArchiveKey(url) == SubSeq(url, 3, Len(url))

\* st: the keys head_object can find.
\* probeEnv: "ok" (the store answers 200 or 404), "error" (ClientError other
\* than 404), "exception" (an error that is not a ClientError).
\* toolEnv: "ok" (exit 0), "fail" (CalledProcessError), "nolaunch" (s3tar
\* cannot be started).
\* variant: archive_object without its dry-run return
archive_object_no_dry_run(bucket, dst, dry_run, st, probeEnv, toolEnv) ==
    IF probeEnv = "exception"
    THEN [res |-> "raise", arts |-> st, invoked |-> FALSE, probe |-> "error"]
    ELSE IF probeEnv = "error"
    THEN [res |-> "false", arts |-> st, invoked |-> FALSE, probe |-> "error"]
    ELSE IF full_dst_path(bucket, dst) \in st
    THEN [res |-> "true", arts |-> st, invoked |-> FALSE, probe |-> "hit"]
    ELSE IF toolEnv = "ok"
    THEN [res |-> "true", arts |-> st \cup {ArchiveKey(full_dst_path(bucket, dst))},
          invoked |-> TRUE, probe |-> "miss"]
    ELSE IF toolEnv = "fail"
    THEN [res |-> "false", arts |-> st, invoked |-> TRUE, probe |-> "miss"]
    ELSE [res |-> "raise", arts |-> st, invoked |-> TRUE, probe |-> "miss"]

\* variant: the exit code of the archiver is not checked
archive_object_unchecked(bucket, dst, dry_run, st, probeEnv, toolEnv) ==
    IF dry_run
    THEN [res |-> "true", arts |-> st, invoked |-> FALSE, probe |-> "none"]
    ELSE IF probeEnv = "exception"
    THEN [res |-> "raise", arts |-> st, invoked |-> FALSE, probe |-> "error"]
    ELSE IF probeEnv = "error"
    THEN [res |-> "false", arts |-> st, invoked |-> FALSE, probe |-> "error"]
    ELSE IF full_dst_path(bucket, dst) \in st
    THEN [res |-> "true", arts |-> st, invoked |-> FALSE, probe |-> "hit"]
    ELSE IF toolEnv = "ok"
    THEN [res |-> "true", arts |-> st \cup {ArchiveKey(full_dst_path(bucket, dst))},
          invoked |-> TRUE, probe |-> "miss"]
    ELSE IF toolEnv = "fail"
    THEN [res |-> "true", arts |-> st, invoked |-> TRUE, probe |-> "miss"]
    ELSE [res |-> "raise", arts |-> st, invoked |-> TRUE, probe |-> "miss"]

archive_object(bucket, dst, dry_run, st, probeEnv, toolEnv) ==
    LET url == full_dst_path(bucket, dst) IN
    IF dry_run
    THEN [res |-> "true", arts |-> st, invoked |-> FALSE, probe |-> "none"]
    ELSE IF probeEnv = "exception"
    THEN [res |-> "raise", arts |-> st, invoked |-> FALSE, probe |-> "error"]
    ELSE IF probeEnv = "error"
    THEN [res |-> "false", arts |-> st, invoked |-> FALSE, probe |-> "error"]
    ELSE IF url \in st                      \* head_object(Key=full_dst_path)
    THEN [res |-> "true", arts |-> st, invoked |-> FALSE, probe |-> "hit"]
    ELSE IF toolEnv = "ok"
    THEN [res |-> "true", arts |-> st \cup {ArchiveKey(url)},
          invoked |-> TRUE, probe |-> "miss"]
    ELSE IF toolEnv = "fail"
    THEN [res |-> "false", arts |-> st, invoked |-> TRUE, probe |-> "miss"]
    ELSE [res |-> "raise", arts |-> st, invoked |-> TRUE, probe |-> "miss"]

\* variant: a batch is flushed once it holds more than n elements
RECURSIVE ChunksLate(_, _)
ChunksLate(s, n) ==
    IF s = <<>> THEN <<>>
    ELSE IF Len(s) <= n + 1 THEN <<s>>
    ELSE <<SubSeq(s, 1, n + 1)>> \o ChunksLate(SubSeq(s, n + 2, Len(s)), n)

RECURSIVE Chunks(_, _)
Chunks(s, n) ==
    IF s = <<>> THEN <<>>
    ELSE IF Len(s) <= n THEN <<s>>
    ELSE <<SubSeq(s, 1, n)>> \o Chunks(SubSeq(s, n + 1, Len(s)), n)

ObjectKeys(lines) == [i \in DOMAIN lines |-> clean_string(lines[i].path)]

BatchResponses == {"ok", "errors", "exception"}

\* keys a delete_objects call removes: all on "ok", all but the first on
\* "errors" (the response lists the first key under Errors), none on
\* "exception"
Removed(batch, resp) ==
    CASE resp = "ok" -> SeqToSet(batch)
      [] resp = "errors" -> SeqToSet(Tail(batch))
      [] OTHER -> {}

\* variant: delete_object without its "if not delete" return
delete_object_no_flag(files, src_path, delete, dry_run, resp) ==
    IF dry_run THEN [ret |-> TRUE, calls |-> <<>>]
    ELSE IF src_path \notin DOMAIN files THEN [ret |-> FALSE, calls |-> <<>>]
    ELSE
      LET batches == Chunks(ObjectKeys(files[src_path]), batch_size)
          excAt == {i \in 1..Len(batches) : resp[i] = "exception"}
          last == IF excAt = {} THEN Len(batches) ELSE Min(excAt)
      IN [ret |-> excAt = {},
          calls |-> [i \in 1..last |-> [keys |-> batches[i], resp |-> resp[i]]]]

\* resp[i] is the object store's answer to the i-th delete_objects call
delete_object(files, src_path, delete, dry_run, resp) ==
    IF dry_run THEN [ret |-> TRUE, calls |-> <<>>]
    ELSE IF ~delete THEN [ret |-> FALSE, calls |-> <<>>]
    ELSE IF src_path \notin DOMAIN files THEN [ret |-> FALSE, calls |-> <<>>]
    ELSE
      LET batches == Chunks(ObjectKeys(files[src_path]), batch_size)
          excAt == {i \in 1..Len(batches) : resp[i] = "exception"}
          last == IF excAt = {} THEN Len(batches) ELSE Min(excAt)
      IN [ret |-> excAt = {},
          calls |-> [i \in 1..last |-> [keys |-> batches[i], resp |-> resp[i]]]]

RECURSIVE RemovedByCalls(_)
RemovedByCalls(calls) ==
    IF calls = <<>> THEN {}
    ELSE Removed(Head(calls).keys, Head(calls).resp) \cup RemovedByCalls(Tail(calls))

----------------------------------------------------------------------------
(* archivev2.py: one iteration of the loops of process_archive and        *)
(* process_delete                                                         *)

StepResult(raised, outcome, rows, committed, files, st, arts, invoked, probe, calls, manifest) ==
    [raised |-> raised, outcome |-> outcome, rows |-> rows, db |-> committed,
     files |-> files, store |-> st, arts |-> arts, invoked |-> invoked,
     probe |-> probe, calls |-> calls, manifest |-> manifest]

ArchiveGroup(rows, committed, files, st, arts, cfg, item, today, probeEnv, toolEnv) ==
    LET v == validate_destination_path(rows, Index0(item), today) IN
    IF v.res = "raise"
    THEN StepResult(TRUE, "raise", rows, committed, files, st, arts, FALSE, "none", <<>>, <<>>)
    ELSE IF v.res = "false"
    THEN StepResult(FALSE, "invalid", v.rows, committed, files, st, arts, FALSE, "none", <<>>, <<>>)
    ELSE
      LET b == build_csv(v.rows, Index0(item), files) IN
      IF b.res = "raise"
      THEN StepResult(TRUE, "raise", v.rows, committed, files, st, arts, FALSE, "none", <<>>, <<>>)
      ELSE IF b.res = "none"
      THEN StepResult(FALSE, "empty", b.rows, b.rows, b.files, st, arts, FALSE, "none", <<>>, <<>>)
      ELSE
        LET a == archive_object(cfg.bucket, Index0(item).v, cfg.dry_run, arts,
                                probeEnv, toolEnv)
            manifest == b.files[b.path]
        IN IF a.res = "raise"
           THEN StepResult(TRUE, "raise", b.rows, committed, b.files, st, a.arts,
                           a.invoked, a.probe, <<>>, manifest)
           ELSE IF a.res = "true" /\ ~cfg.dry_run
           THEN LET upd == SetFlag(b.rows, Index0(item).v, "archived")
                IN StepResult(FALSE, "archived", upd, upd, RemoveFile(b.files, b.path),
                              st, a.arts, a.invoked, a.probe, <<>>, manifest)
           ELSE StepResult(FALSE, IF a.res = "true" THEN "simulated" ELSE "failed",
                           b.rows, committed, RemoveFile(b.files, b.path),
                           st, a.arts, a.invoked, a.probe, <<>>, manifest)

\* variant: the loop of process_delete hands on dst_path[0], as the loop
\* of process_archive does
DeleteGroupUnpacked(rows, committed, files, st, arts, cfg, item, today, resp) ==
    LET v == validate_destination_path(rows, Index0(item), today) IN
    IF v.res = "raise"
    THEN StepResult(TRUE, "raise", rows, committed, files, st, arts, FALSE, "none", <<>>, <<>>)
    ELSE IF v.res = "false"
    THEN StepResult(FALSE, "invalid", v.rows, committed, files, st, arts, FALSE, "none", <<>>, <<>>)
    ELSE
      LET b == build_csv(v.rows, Index0(item), files) IN
      IF b.res = "raise"
      THEN StepResult(TRUE, "raise", v.rows, committed, files, st, arts, FALSE, "none", <<>>, <<>>)
      ELSE IF b.res = "none"
      THEN StepResult(FALSE, "empty", b.rows, b.rows, b.files, st, arts, FALSE, "none", <<>>, <<>>)
      ELSE
        LET d == delete_object(b.files, b.path, cfg.delete, cfg.dry_run, resp)
            manifest == b.files[b.path]
            st2 == st \ RemovedByCalls(d.calls)
        IN IF d.ret /\ ~cfg.dry_run
           THEN LET upd == SetFlag(b.rows, Index0(item).v, "deleted")
                IN StepResult(FALSE, "deleted", upd, upd, RemoveFile(b.files, b.path),
                              st2, arts, FALSE, "none", d.calls, manifest)
           ELSE StepResult(FALSE, IF d.ret THEN "simulated" ELSE "failed",
                           b.rows, committed, RemoveFile(b.files, b.path),
                           st2, arts, FALSE, "none", d.calls, manifest)

DeleteGroup(rows, committed, files, st, arts, cfg, item, today, resp) ==
    LET v == validate_destination_path(rows, item, today) IN
    IF v.res = "raise"
    THEN StepResult(TRUE, "raise", rows, committed, files, st, arts, FALSE, "none", <<>>, <<>>)
    ELSE IF v.res = "false"
    THEN StepResult(FALSE, "invalid", v.rows, committed, files, st, arts, FALSE, "none", <<>>, <<>>)
    ELSE
      LET b == build_csv(v.rows, item, files) IN
      IF b.res = "raise"
      THEN StepResult(TRUE, "raise", v.rows, committed, files, st, arts, FALSE, "none", <<>>, <<>>)
      ELSE IF b.res = "none"
      THEN StepResult(FALSE, "empty", b.rows, b.rows, b.files, st, arts, FALSE, "none", <<>>, <<>>)
      ELSE
        LET d == delete_object(b.files, b.path, cfg.delete, cfg.dry_run, resp)
            manifest == b.files[b.path]
            st2 == st \ RemovedByCalls(d.calls)
        IN IF d.ret /\ ~cfg.dry_run
           THEN LET upd == SetFlag(b.rows, Index0(item).v, "deleted")
                IN StepResult(FALSE, "deleted", upd, upd, RemoveFile(b.files, b.path),
                              st2, arts, FALSE, "none", d.calls, manifest)
           ELSE StepResult(FALSE, IF d.ret THEN "simulated" ELSE "failed",
                           b.rows, committed, RemoveFile(b.files, b.path),
                           st2, arts, FALSE, "none", d.calls, manifest)

----------------------------------------------------------------------------
(* s3tar.py: the object listing *)

PageSize == 1000
COMPANY == "a"

\* the tokens of the modelled keys in byte order
TokOrder ==
    <<"", "%3D", "=", "01", "02", "03", "1", "10", "11", "2", "2024", "3",
      "Account", "Contact", "acme", "appflow", "day", "f1", "f2", "month", "raw",
      "short", "year">>

RankTable == [t \in SeqToSet(TokOrder) |-> CHOOSE i \in 1..Len(TokOrder) : TokOrder[i] = t]

Rank(t) == RankTable[t]

SegLess(a, b) ==
    \/ Rank(a.k) < Rank(b.k)
    \/ a.k = b.k /\ Rank(a.eq) < Rank(b.eq)
    \/ a.k = b.k /\ a.eq = b.eq /\ Rank(a.v) < Rank(b.v)

RECURSIVE KeyLess(_, _)
KeyLess(a, b) ==
    IF a = <<>> THEN b # <<>>
    ELSE IF b = <<>> THEN FALSE
    ELSE IF Head(a) = Head(b) THEN KeyLess(Tail(a), Tail(b))
    ELSE SegLess(Head(a), Head(b))

RECURSIVE SortKeys(_)
SortKeys(S) ==
    IF S = {} THEN <<>>
    ELSE LET m == CHOOSE x \in S : \A y \in S \ {x} : KeyLess(x, y)
         IN <<m>> \o SortKeys(S \ {m})

\* text starts with: only the company marker is ever asked for
TokenStartsWith(t, pfx) == pfx = "" \/ (pfx = "a" /\ t \in {"a", "acme", "appflow"})

\* a prefix is a sequence of whole segments followed by the beginning of one
PrefixOf(full, part) == [full |-> full, part |-> part]

NoPrefix == PrefixOf(<<>>, "none")

HasPrefix(key, pfx) ==
    /\ Len(key) > Len(pfx.full)
    /\ SubSeq(key, 1, Len(pfx.full)) = pfx.full
    /\ TokenStartsWith(key[Len(pfx.full) + 1].v, pfx.part)

\* the Size the listing reports for each object of the bucket
SizeTable ==
    [key \in {normalize_path(r.path) : r \in KnownRows} |->
        (CHOOSE r \in KnownRows : normalize_path(r.path) = key).size]

SizeOf(key) == SizeTable[key]

\* listOk = FALSE: list_objects_v2 raises
list_top_prefixes(st, root_prefix, listOk) ==
    LET common == {<<k[1], k[2]>> : k \in {x \in st : HasPrefix(x, root_prefix) /\ Len(x) > 2}}
    IN IF ~listOk \/ common = {} THEN <<root_prefix>>
       ELSE LET ordered == SortKeys(common)
            IN [i \in DOMAIN ordered |-> PrefixOf(ordered[i], "")]

----------------------------------------------------------------------------
(* s3tar.py: state file *)

\* a continuation token names the key the listing goes on after; None is
\* the empty key
NoToken == <<>>

DefaultState ==
    [processed_paths |-> <<>>, last_prefix |-> NoPrefix, continuation_token |-> NoToken]

NoFile == [exists |-> FALSE, content |-> DefaultState]

load_state(file) == IF file.exists THEN file.content ELSE DefaultState

\* saveOk = FALSE: the write raises; the error is logged and swallowed
save_state(file, state, saveOk) ==
    IF saveOk THEN [exists |-> TRUE, content |-> state] ELSE file

----------------------------------------------------------------------------
(* s3tar.py: find_paths *)

LastIndex(parts, name) ==
    LET S == {i \in 1..Len(parts) : parts[i].k = name /\ parts[i].eq = "="}
    IN IF S = {} THEN 0 ELSE CHOOSE i \in S : \A j \in S : j <= i

\* the loop "Find key indices in the path parts", indices 0-based, -1 unset
RECURSIVE KeyIndices(_, _, _)
KeyIndices(parts, i, acc) ==
    IF i >= Len(parts) THEN acc
    ELSE LET part == parts[i + 1]
             nxt == IF part.k = "" /\ part.v = "raw" THEN [acc EXCEPT !.raw = i]
                    ELSE IF i = acc.raw + 1 THEN [acc EXCEPT !.company = i]
                    ELSE IF i = acc.company + 1 THEN [acc EXCEPT !.short = i]
                    ELSE IF i = acc.short + 1 THEN [acc EXCEPT !.object = i]
                    ELSE acc
         IN KeyIndices(parts, i + 1, nxt)

Skip == [ok |-> FALSE, year |-> 0, month |-> 0, day |-> 0, day_path |-> <<>>]

\* the body of the loop over the objects of a page, up to the tree update
ObjParts(key, yi, mi, di, idx) ==
    IF Len(key) < 8 THEN Skip
    ELSE IF 0 \in {yi, mi, di} THEN Skip
    ELSE IF ~({key[yi].v, key[mi].v, key[di].v} \subseteq DigitTokens) THEN Skip
    ELSE IF -1 \in {idx.raw, idx.company, idx.short, idx.object} THEN Skip
    ELSE [ok |-> TRUE, year |-> ToInt(key[yi].v), month |-> ToInt(key[mi].v),
          day |-> ToInt(key[di].v),
          day_path |-> SubSeq(key, idx.company + 1, di)]

ObjInfo(key) ==
    ObjParts(key, LastIndex(key, "year"), LastIndex(key, "month"), LastIndex(key, "day"),
             KeyIndices(key, 0, [raw |-> -1, company |-> -1, short |-> -1, object |-> -1]))

ObjInfoTable == [key \in {normalize_path(r.path) : r \in KnownRows} |-> ObjInfo(key)]

EntryAt(tree, y, m, d) ==
    {i \in 1..Len(tree) : tree[i].year = y /\ tree[i].month = m /\ tree[i].day = d}

\* path_tree[year][month][day], kept in order of first insertion
TreeEntry(tree, y, m, d) ==
    IF EntryAt(tree, y, m, d) = {}
    THEN Append(tree, [year |-> y, month |-> m, day |-> d,
                       size |-> 0, processed |-> FALSE, path |-> <<>>])
    ELSE tree

UpdateEntry(t, i, key, o, processed_paths) ==
    IF o.day_path \in processed_paths
    THEN [t EXCEPT ![i].processed = TRUE]
    ELSE [t EXCEPT ![i].size = @ + SizeOf(key),
                   ![i].path = o.day_path,
                   ![i].processed = FALSE]

AddInfo(tree, key, o, processed_paths) ==
    IF ~o.ok THEN tree
    ELSE UpdateEntry(TreeEntry(tree, o.year, o.month, o.day),
                     CHOOSE j \in 1..(Len(tree) + 1) :
                         j \in EntryAt(TreeEntry(tree, o.year, o.month, o.day),
                                       o.year, o.month, o.day),
                     key, o, processed_paths)

AddObject(tree, key, processed_paths) ==
    AddInfo(tree, key, ObjInfoTable[key], processed_paths)

RECURSIVE AddPage(_, _, _)
AddPage(tree, page, processed_paths) ==
    IF page = <<>> THEN tree
    ELSE AddPage(AddObject(tree, Head(page), processed_paths), Tail(page), processed_paths)

Unprocessed(tree) == Cardinality({i \in 1..Len(tree) : ~tree[i].processed})

\* the keys of the listing that a request with StartingToken = token yields
ListAfter(listing, token) ==
    IF token = NoToken THEN listing
    ELSE SelectSeq(listing, LAMBDA k : KeyLess(token, k))

\* pages[i] is the i-th page of the listing; a page other than the last
\* carries the token of the next page; errAt is the page whose request
\* raises (0: none); read is the number of pages the loop went through
RECURSIVE PageLoop(_, _, _, _, _, _, _)
RECURSIVE PageDone(_, _, _, _, _, _, _)
PageLoop(pages, i, tree, token, processed_paths, max_paths, errAt) ==
    IF i > Len(pages) THEN [tree |-> tree, token |-> token, read |-> i - 1]
    ELSE IF i = errAt THEN [tree |-> tree, token |-> token, read |-> i - 1]
    ELSE PageDone(pages, i, AddPage(tree, pages[i], processed_paths),
                  IF i < Len(pages) THEN pages[i][Len(pages[i])] ELSE token,
                  processed_paths, max_paths, errAt)

\* the end of the loop body: stop at max_paths unprocessed days, else go on
PageDone(pages, i, t, tok, processed_paths, max_paths, errAt) ==
    IF Unprocessed(t) >= max_paths
    THEN [tree |-> t, token |-> tok, read |-> i]
    ELSE PageLoop(pages, i + 1, t, tok, processed_paths, max_paths, errAt)

\* the "finally" of find_paths: the token and the prefix are saved
FindSave(file, state, prefix, r, saveOk) ==
    [tree |-> r.tree, read |-> r.read,
     file |-> save_state(file, [state EXCEPT !.continuation_token = r.token,
                                             !.last_prefix = prefix], saveOk)]

\* served: the number of keys the object store puts on a page, at most
\* PageSize
FindIn(file, state, st, prefix, max_paths, errAt, saveOk, served) ==
    FindSave(file, state, prefix,
             PageLoop(Chunks(ListAfter(SortKeys({k \in st : HasPrefix(k, prefix)}),
                                       state.continuation_token),
                             served),
                      1, <<>>, NoToken, SeqToSet(state.processed_paths), max_paths, errAt),
             saveOk)

FindFrom(file, state, st, prefixArg, max_paths, listOk, errAt, saveOk, served) ==
    FindIn(file, state, st,
           IF prefixArg # NoPrefix THEN prefixArg
           ELSE IF state.last_prefix # NoPrefix THEN state.last_prefix
           ELSE list_top_prefixes(st, PrefixOf(<<Seg("raw")>>, COMPANY), listOk)[1],
           max_paths, errAt, saveOk, served)

find_paths(file, st, prefixArg, max_paths, listOk, errAt, saveOk, served) ==
    FindFrom(file, load_state(file), st, prefixArg, max_paths, listOk, errAt, saveOk,
             served)

----------------------------------------------------------------------------
(* s3tar.py: get_valid_paths *)

is_valid_path(e, today) ==
    IF 0 \in {e.year, e.month, e.day} THEN FALSE
    ELSE IF e.day = 1 THEN FALSE
    \* file_date > today - 90 days, today carrying a time of day
    ELSE IF Ordinal(e.year, e.month, e.day) > today - DaysThreshold THEN FALSE
    ELSE TRUE

\* iteration order of the nested dictionaries: years, then months, then
\* days, each in order of first insertion
FirstYear(tree, i) == Min({j \in 1..Len(tree) : tree[j].year = tree[i].year})
FirstMonth(tree, i) ==
    Min({j \in 1..Len(tree) : tree[j].year = tree[i].year /\ tree[j].month = tree[i].month})

IterBefore(tree, i, j) ==
    \/ FirstYear(tree, i) < FirstYear(tree, j)
    \/ FirstYear(tree, i) = FirstYear(tree, j) /\ FirstMonth(tree, i) < FirstMonth(tree, j)
    \/ FirstYear(tree, i) = FirstYear(tree, j) /\ FirstMonth(tree, i) = FirstMonth(tree, j) /\ i < j

RECURSIVE IterOrder(_, _)
IterOrder(tree, left) ==
    IF left = {} THEN <<>>
    ELSE LET i == CHOOSE x \in left : \A y \in left \ {x} : IterBefore(tree, x, y)
         IN <<tree[i]>> \o IterOrder(tree, left \ {i})

\* the day loop tests len(valid_paths) >= max_paths after every day it does
\* not skip; the month and year loops test it again when a month is over
MonthEnds(entries) ==
    \/ Tail(entries) = <<>>
    \/ Tail(entries)[1].year # Head(entries).year
    \/ Tail(entries)[1].month # Head(entries).month

RECURSIVE CollectValid(_, _, _, _)
RECURSIVE DayDone(_, _, _, _)
CollectValid(entries, valid, max_paths, today) ==
    IF entries = <<>> THEN valid
    ELSE IF Head(entries).processed \/ Head(entries).size = 0
    THEN IF MonthEnds(entries) /\ Len(valid) >= max_paths THEN valid
         ELSE CollectValid(Tail(entries), valid, max_paths, today)
    ELSE DayDone(entries,
                 IF is_valid_path(Head(entries), today)
                 THEN Append(valid, Head(entries).path) ELSE valid,
                 max_paths, today)

\* "if len(valid_paths) >= max_paths: break" at the end of the day loop body
DayDone(entries, v, max_paths, today) ==
    IF Len(v) >= max_paths THEN v
    ELSE CollectValid(Tail(entries), v, max_paths, today)

get_valid_paths(tree, max_paths, today) ==
    CollectValid(IterOrder(tree, DOMAIN tree), <<>>, max_paths, today)

----------------------------------------------------------------------------
(* s3tar.py: archive_single_path and delete_single_path *)

UnderDayPath(st, path) ==
    {k \in st : Len(k) > Len(path) + 1 /\ SubSeq(k, 1, Len(path) + 1) = <<Seg("raw")>> \o path}

LiveArchiveKey(path) == <<"a", "rchive", "raw">> \o JoinSegs(path) \o <<".tar">>

\* env: "ok", "listerr" (list_objects_v2 raises), "fail" (s3tar exits
\* non-zero), "nolaunch" (s3tar cannot be started)
archive_single_path(path, st, arts, env) ==
    LET shown == Cardinality(UnderDayPath(st, path))
        object_count == IF shown > PageSize THEN PageSize ELSE shown
    IN IF env = "listerr" THEN [res |-> "false", arts |-> arts, invoked |-> FALSE]
       ELSE IF object_count < 2 THEN [res |-> "false", arts |-> arts, invoked |-> FALSE]
       ELSE IF env = "ok"
       THEN [res |-> "true", arts |-> arts \cup {LiveArchiveKey(path)}, invoked |-> TRUE]
       ELSE IF env = "fail" THEN [res |-> "false", arts |-> arts, invoked |-> TRUE]
       ELSE [res |-> "raise", arts |-> arts, invoked |-> TRUE]

\* variant: the worker records its path in the state file itself
archive_task_saving(path, st, arts, env, file) ==
    LET a == archive_single_path(path, st, arts, env)
        state == load_state(file)
    IN IF a.res = "true" /\ path \notin SeqToSet(state.processed_paths)
       THEN [a |-> a, wrote |-> TRUE,
             file |-> save_state(file, [state EXCEPT !.processed_paths = Append(@, path)],
                                 TRUE)]
       ELSE [a |-> a, wrote |-> FALSE, file |-> file]

\* the task process_paths submits to the pool: a worker thread runs
\* archive_single_path, which does not touch the state file
archive_task(path, st, arts, env, file) ==
    [a |-> archive_single_path(path, st, arts, env), wrote |-> FALSE, file |-> file]

\* env: "ok", "fail" (aws s3 rm exits non-zero), "nolaunch"
delete_single_path(path, st, env) ==
    IF env = "ok" THEN [res |-> "true", store |-> st \ UnderDayPath(st, path)]
    ELSE IF env = "fail" THEN [res |-> "false", store |-> st]
    ELSE [res |-> "raise", store |-> st]

----------------------------------------------------------------------------
(* delete.py: bulk delete from a CSV of (bucket, path) rows *)

CHUNK_SIZE == 10000
THREAD_CHUNK_SIZE == 1000

\* path.replace('%3D', '=') for every path
fix_paths(paths) == [i \in DOMAIN paths |-> normalize_path(paths[i])]

\* variant: the slices are cut at CHUNK_SIZE
SliceBoundsByChunk(len) ==
    [j \in 1..((len + CHUNK_SIZE - 1) \div CHUNK_SIZE) |->
        [from |-> (j - 1) * CHUNK_SIZE,
         to |-> IF j * CHUNK_SIZE < len THEN j * CHUNK_SIZE ELSE len]]

\* the slices [i : i + THREAD_CHUNK_SIZE] for i in range(0, len,
\* THREAD_CHUNK_SIZE), as 0-based half-open bounds
SliceBounds(len) ==
    [j \in 1..((len + THREAD_CHUNK_SIZE - 1) \div THREAD_CHUNK_SIZE) |->
        [from |-> (j - 1) * THREAD_CHUNK_SIZE,
         to |-> IF j * THREAD_CHUNK_SIZE < len THEN j * THREAD_CHUNK_SIZE ELSE len]]

thread_chunks(fixed_paths) ==
    LET b == SliceBounds(Len(fixed_paths))
    IN [j \in DOMAIN b |-> SubSeq(fixed_paths, b[j].from + 1, b[j].to)]

\* The CSV of the bulk delete has csv.rows rows, numbered from 1; the rows
\* in csv.bad have a cell that pandas does not read as text (an empty
\* cell).  A row stands for its key: a remote delete call and a ledger line
\* carry a range of rows.
NumChunks(csv) == (csv.rows + CHUNK_SIZE - 1) \div CHUNK_SIZE

\* rows of the chunk that read_csv(chunksize=CHUNK_SIZE) yields as number b
ChunkRows(csv, b) ==
    [from |-> b * CHUNK_SIZE + 1,
     to |-> IF (b + 1) * CHUNK_SIZE < csv.rows THEN (b + 1) * CHUNK_SIZE ELSE csv.rows]

NoCheckpoint == [exists |-> FALSE, last_completed_batch |-> -1]

\* saveOk: the checkpoint file could be written
save_checkpoint(file, batch_number, saveOk) ==
    IF saveOk THEN [exists |-> TRUE, last_completed_batch |-> batch_number - 1]
    ELSE file

load_checkpoint(file) == IF file.exists THEN file.last_completed_batch ELSE -1

\* delete_objects in its thread, for the rows r of one slice.
\* env: "ok" (every key under Deleted), "errors" (some keys under Errors),
\* "exception" (the call raises; every path is written as an error),
\* "unwritten" (the call is made, the ledger file cannot be written and the
\* thread ends with the exception).
delete_objects(r, batch_id, env) ==
    [issued |-> {r},
     ledger |-> CASE env = "ok" -> {[rows |-> r, id |-> batch_id, status |-> "deleted"]}
                  [] env = "errors" -> {[rows |-> r, id |-> batch_id, status |-> "deleted/error"]}
                  [] env = "exception" -> {[rows |-> r, id |-> batch_id, status |-> "error"]}
                  [] OTHER -> {}]

\* the body of the try block of main for chunk batch_number.
\* env: the outcome of the first thread; the other threads get "ok".
ProcessChunk(csv, batch_number, env) ==
    LET c == ChunkRows(csv, batch_number)
        b == SliceBounds(c.to - c.from + 1)
        res == [j \in DOMAIN b |->
                  delete_objects([from |-> c.from + b[j].from, to |-> c.from + b[j].to - 1],
                                 <<batch_number, j - 1>>,
                                 IF j = 1 THEN env ELSE "ok")]
    IN IF \E x \in csv.bad : x \in c.from..c.to
       THEN [raised |-> TRUE, issued |-> {}, ledger |-> {}]   \* row[0].strip
       ELSE [raised |-> FALSE,
             issued |-> UNION {res[j].issued : j \in DOMAIN b},
             ledger |-> UNION {res[j].ledger : j \in DOMAIN b}]

----------------------------------------------------------------------------
(* generate-files.py: the CSV filter *)

days_filter == 90

\* "raw/" in filepath
ContainsRaw(p) == \E i \in 1..(Len(p) - 1) : p[i].k = "" /\ p[i].v = "raw"

\* int() of the three strings, datetime() of the numbers, the age in days
is_within_date_range(year, month, day, today) ==
    IF ~({year, month, day} \subseteq DigitTokens) THEN "raise"   \* int("unknown")
    ELSE IF ~DateValid(ToInt(year), ToInt(month), ToInt(day)) THEN "raise"
    ELSE IF today - Ordinal(ToInt(year), ToInt(month), ToInt(day)) <= days_filter
         THEN "true" ELSE "false"

\* the body of the loop over the rows of the CSV, for one row
FilterRow(row, today) ==
    IF ~ContainsRaw(row.path) THEN "skipped_non_raw"
    ELSE LET dp == extract_date_parts(normalize_path(row.path)) IN
         IF dp[3] = "1" THEN "skipped_day1"
         ELSE LET w == is_within_date_range(dp[1], dp[2], dp[3], today) IN
              IF w = "raise" THEN "raise"
              ELSE IF w = "true" THEN "skipped_new"
              ELSE "kept"

\* process_s3_csv of generate-files.py: the rows written to the output
\* files; an exception ends the loop, the rows batched so far are written
RECURSIVE FilterRows(_, _, _)
FilterRows(file, today, kept) ==
    IF file = <<>> THEN [raised |-> FALSE, kept |-> kept]
    ELSE IF FilterRow(Head(file), today) = "raise" THEN [raised |-> TRUE, kept |-> kept]
    ELSE FilterRows(Tail(file), today,
                    IF FilterRow(Head(file), today) = "kept"
                    THEN kept \cup {[Head(file) EXCEPT !.path = normalize_path(@)]}
                    ELSE kept)

----------------------------------------------------------------------------
(* State *)

\* the objects the inventory lists exist in the bucket under their real keys
InitialStore == {normalize_path(r.path) : r \in AllRows}

Configs ==
    [bucket : {"b"}, archive : BOOLEAN, delete : BOOLEAN, dry_run : BOOLEAN,
     limit : {0, 1}]

NoConfig ==
    [bucket |-> "b", archive |-> FALSE, delete |-> FALSE, dry_run |-> FALSE,
     limit |-> 0]

IdleRun == [stage |-> "idle", cfg |-> NoConfig, work |-> <<>>]

MaxPathsArgs == {1, 100}

LiveArgs ==
    [delete : BOOLEAN, dry_run : BOOLEAN, max_paths : MaxPathsArgs,
     clear_state : BOOLEAN, prefix : {NoPrefix}]

NoArgs ==
    [delete |-> FALSE, dry_run |-> FALSE, max_paths |-> 100,
     clear_state |-> FALSE, prefix |-> NoPrefix]

LiveIdle(file) ==
    [pc |-> "idle", args |-> NoArgs, file |-> file, pending |-> {},
     processed |-> <<>>, delPending |-> {}]

NoStep ==
    [op |-> "none", dst |-> <<>>, outcome |-> "none", invoked |-> FALSE,
     probe |-> "none", manifest |-> <<>>, keys |-> {}, resps |-> {},
     dry_run |-> FALSE, deleteFlag |-> FALSE]

Step(op, dst, r, cfg) ==
    [op |-> op, dst |-> dst, outcome |-> r.outcome, invoked |-> r.invoked,
     probe |-> r.probe, manifest |-> r.manifest,
     keys |-> UNION {SeqToSet(r.calls[i].keys) : i \in DOMAIN r.calls},
     resps |-> {r.calls[i].resp : i \in DOMAIN r.calls},
     dry_run |-> cfg.dry_run, deleteFlag |-> cfg.delete]

Bump(f, k) ==
    [x \in DOMAIN f \cup {k} |->
        IF x = k THEN (IF k \in DOMAIN f THEN f[k] + 1 ELSE 1) ELSE f[x]]

SelectGroups(rows, a, d) ==
    {r.destination_path :
        r \in {q \in rows : q.archived = a /\ q.deleted = d /\ q.ignored = 0}}

Recorded(rows, dst) == \E r \in rows : r.destination_path = dst /\ r.archived = 1

CallLog(prog, calls, dst, cfg, recorded) ==
    {[prog |-> prog, target |-> dst, keys |-> SeqToSet(calls[i].keys),
      resp |-> calls[i].resp, deleteFlag |-> cfg.delete, dry_run |-> cfg.dry_run,
      recorded |-> recorded] : i \in DOMAIN calls}

BulkIdle(csv) ==
    [pc |-> "idle", csv |-> csv, file |-> NoCheckpoint, last_batch |-> -1,
     batch_number |-> 0, issued |-> {}, ledger |-> {}, runs |-> 0]

NoBulk == BulkIdle([rows |-> 0, bad |-> {}])

NoCall == [fn |-> "none", n |-> 0, sizes |-> <<>>, out |-> "none", kept |-> {}]

\* futures: the result of each task a worker thread has finished;
\* writes: the writes of the state file and of the checkpoint file, each
\* with the thread that made it
NoPool == [futures |-> <<>>, writes |-> {}]

Init ==
    /\ variant \in {"catalog", "live", "calls"}
    /\ ignoredColumn \in (IF variant = "catalog" THEN BOOLEAN ELSE {variant = "calls"})
    /\ db = {}
    /\ conn = {}
    /\ run = IdleRun
    /\ tmp = <<>>
    /\ store = InitialStore
    /\ artifacts = {}
    /\ now = FirstNow
    /\ runs = 0
    /\ archiverCalls = <<>>
    /\ deleteCalls = {}
    /\ lastStep = NoStep
    /\ live = LiveIdle(NoFile)
    /\ bulk = NoBulk
    /\ call = NoCall
    /\ pool = NoPool
    /\ tarred = {}

----------------------------------------------------------------------------
(* Actions: generate.py and archivev2.py *)

\* generate.py main: import one inventory file (one chunk, one commit)
Import ==
    /\ variant \in {"catalog", "calls"}
    /\ run.stage = "idle"
    /\ \E f \in InputFiles :
          /\ db' = process_s3_csv(db, f)
          /\ conn' = db'
    /\ lastStep' = [NoStep EXCEPT !.op = "import"]
    /\ UNCHANGED <<tarred, pool, bulk, call, variant, ignoredColumn, run, tmp, store, artifacts, now, runs,
                   archiverCalls, deleteCalls, live>>

\* archivev2.py main and process, up to the SELECT of the chosen stage
StartRun ==
    /\ variant = "catalog"
    /\ run.stage = "idle"
    /\ runs < MaxRuns
    /\ runs' = runs + 1
    /\ \E cfg \in Configs :
          IF ~(cfg.archive \/ cfg.delete)
          THEN /\ run' = IdleRun                  \* no action selected
               /\ lastStep' = [NoStep EXCEPT !.op = "start", !.outcome = "noaction",
                                             !.dry_run = cfg.dry_run,
                                             !.deleteFlag = cfg.delete]
          ELSE IF ~ignoredColumn
          THEN /\ run' = IdleRun                  \* no such column: ignored
               /\ lastStep' = [NoStep EXCEPT !.op = "start", !.outcome = "raise",
                                             !.dry_run = cfg.dry_run,
                                             !.deleteFlag = cfg.delete]
          ELSE \E order \in Perms(SelectGroups(db, IF cfg.archive THEN 0 ELSE 1, 0)) :
                 /\ run' = [stage |-> IF cfg.archive THEN "archive" ELSE "delete",
                            cfg |-> cfg,
                            work |-> LET rowsOut == [i \in DOMAIN order |-> Tup1(order[i])]
                                     IN IF cfg.archive /\ cfg.limit > 0
                                        THEN Prefix(rowsOut, cfg.limit)
                                        ELSE rowsOut]
                 /\ lastStep' = [NoStep EXCEPT !.op = "start", !.outcome = "selected",
                                               !.dry_run = cfg.dry_run,
                                               !.deleteFlag = cfg.delete]
    /\ conn' = db
    /\ UNCHANGED <<tarred, pool, bulk, call, variant, ignoredColumn, db, tmp, store, artifacts, now,
                   archiverCalls, deleteCalls, live>>

Finish(r, item, op) ==
    /\ db' = r.db
    /\ tmp' = r.files
    /\ store' = r.store
    /\ artifacts' = r.arts
    /\ lastStep' = Step(op, Index0(item).v, r, run.cfg)
    /\ archiverCalls' = IF r.invoked THEN Bump(archiverCalls, Index0(item).v)
                        ELSE archiverCalls
    /\ deleteCalls' = deleteCalls \cup
                        CallLog("catalog", r.calls, Index0(item).v, run.cfg,
                                Recorded(db, Index0(item).v))
    /\ tarred' = IF r.invoked /\ r.outcome = "archived"
                 THEN tarred \cup {[dst |-> Index0(item).v, key |-> r.manifest[i].path] :
                                      i \in DOMAIN r.manifest}
                 ELSE tarred
    /\ IF r.raised
       THEN run' = IdleRun /\ conn' = r.db      \* the process dies, no commit
       ELSE run' = [run EXCEPT !.work = Tail(@)] /\ conn' = r.rows

ArchiveStep ==
    /\ run.stage = "archive"
    /\ run.work # <<>>
    /\ \E probeEnv \in {"ok", "error", "exception"}, toolEnv \in {"ok", "fail", "nolaunch"} :
          Finish(ArchiveGroup(conn, db, tmp, store, artifacts, run.cfg,
                              Head(run.work), now, probeEnv, toolEnv),
                 Head(run.work), "archive")
    /\ UNCHANGED <<pool, bulk, call, variant, ignoredColumn, now, runs, live>>

DeleteStep ==
    /\ run.stage = "delete"
    /\ run.work # <<>>
    /\ \E resp \in [1..1 -> BatchResponses] :
          Finish(DeleteGroup(conn, db, tmp, store, artifacts, run.cfg,
                             Head(run.work), now, resp),
                 Head(run.work), "delete")
    /\ UNCHANGED <<pool, bulk, call, variant, ignoredColumn, now, runs, live>>

\* the loop is over: process returns and the connection is dropped
EndRun ==
    /\ run.stage \in {"archive", "delete"}
    /\ run.work = <<>>
    /\ run' = IdleRun
    /\ conn' = db
    /\ lastStep' = [NoStep EXCEPT !.op = "end"]
    /\ UNCHANGED <<tarred, pool, bulk, call, variant, ignoredColumn, db, tmp, store, artifacts, now, runs,
                   archiverCalls, deleteCalls, live>>

\* a day passes between two runs
Tick ==
    /\ run.stage = "idle"
    /\ live.pc = "idle"
    /\ now < MaxNow
    /\ now' = now + 1
    /\ UNCHANGED <<tarred, pool, bulk, call, variant, ignoredColumn, db, conn, run, tmp, store, artifacts,
                   runs, archiverCalls, deleteCalls, lastStep, live>>

----------------------------------------------------------------------------
(* Actions: direct calls of archivev2.py functions *)

\* build_csv for a group of the catalog, then delete_object on the manifest
\* it returned
CallGroupedDelete ==
    /\ variant = "calls"
    /\ runs < MaxCalls
    /\ runs' = runs + 1
    /\ \E g \in {r.destination_path : r \in db},
          cfg \in {c \in Configs : ~c.archive /\ c.limit = 0},
          resp \in [1..1 -> BatchResponses] :
          LET b == build_csv(db, Str(g), tmp) IN
          IF b.res # "path"
          THEN /\ db' = b.rows
               /\ tmp' = b.files
               /\ lastStep' = [NoStep EXCEPT !.op = "call_build_csv", !.dst = g,
                                             !.outcome = b.res]
               /\ UNCHANGED <<pool, store, deleteCalls>>
          ELSE LET d == delete_object(b.files, b.path, cfg.delete, cfg.dry_run, resp)
               IN /\ db' = b.rows
                  /\ tmp' = b.files
                  /\ store' = store \ RemovedByCalls(d.calls)
                  /\ deleteCalls' = deleteCalls \cup
                        CallLog("calls", d.calls, g, cfg, Recorded(db, g))
                  /\ lastStep' =
                        Step("call_delete_object", g,
                             [outcome |-> IF d.ret THEN "true" ELSE "false",
                              invoked |-> FALSE, probe |-> "none",
                              manifest |-> b.files[b.path], calls |-> d.calls],
                             cfg)
    /\ conn' = db'
    /\ UNCHANGED <<tarred, pool, bulk, call, variant, ignoredColumn, run, artifacts, now,
                   archiverCalls, live>>

----------------------------------------------------------------------------
(* Actions: s3tar.py *)

LiveStep(op, path, outcome, args) ==
    [NoStep EXCEPT !.op = op, !.dst = path, !.outcome = outcome,
                   !.dry_run = args.dry_run, !.deleteFlag = args.delete]

\* process_paths has consumed every future: main goes on to delete_paths
AfterArchiving(args, file, processed) ==
    IF args.delete /\ processed # <<>>
    THEN [pc |-> "deleting", args |-> args, file |-> file, pending |-> {},
          processed |-> processed, delPending |-> SeqToSet(processed)]
    ELSE LiveIdle(file)

\* main after get_valid_paths: a dry run only prints the paths
Listed(clear, max_paths, file, valid_paths) ==
    \E args \in {a \in LiveArgs : a.clear_state = clear /\ a.max_paths = max_paths} :
        /\ live' = IF args.dry_run \/ valid_paths = <<>>
                   THEN LiveIdle(file)
                   ELSE [pc |-> "archiving", args |-> args, file |-> file,
                         pending |-> SeqToSet(valid_paths),
                         processed |-> <<>>, delPending |-> {}]
        /\ lastStep' = [LiveStep("live_start", <<>>, "listed", args)
                          EXCEPT !.keys = SeqToSet(valid_paths)]

\* main after find_paths
Found(clear, max_paths, f) ==
    Listed(clear, max_paths, f.file, get_valid_paths(f.tree, max_paths, now))

\* main up to the submission of the archive tasks, with an object store
\* that puts served keys on a page
LiveStartWith(served, maxRuns) ==
    /\ variant = "live"
    /\ live.pc = "idle"
    /\ runs < maxRuns
    /\ runs' = runs + 1
    /\ \E clear \in BOOLEAN, max_paths \in MaxPathsArgs, listOk \in BOOLEAN,
          errAt \in {0, 1}, saveOk \in BOOLEAN :
          Found(clear, max_paths,
                find_paths(IF clear /\ live.file.exists THEN NoFile ELSE live.file,
                           store, NoPrefix, max_paths, listOk, errAt, saveOk, served))
    /\ UNCHANGED <<tarred, pool, bulk, call, variant, ignoredColumn, db, conn, run, tmp, store, artifacts, now,
                   archiverCalls, deleteCalls>>

\* the object store fills every page
LiveStart == LiveStartWith(PageSize, MaxLiveRuns)

\* process_paths: one future completes and the main thread handles it
LiveArchiveDone ==
    /\ live.pc = "archiving"
    /\ \E path \in live.pending, env \in {"ok", "listerr", "fail", "nolaunch"},
          saveOk \in BOOLEAN :
          LET a == archive_single_path(path, store, artifacts, env)
              state == load_state(live.file)
              file == IF a.res = "true" /\ path \notin SeqToSet(state.processed_paths)
                      THEN save_state(live.file,
                                      [state EXCEPT !.processed_paths = Append(@, path)],
                                      saveOk)
                      ELSE live.file
              processed == IF a.res = "true" THEN Append(live.processed, path)
                           ELSE live.processed
              pending == live.pending \ {path}
          IN /\ artifacts' = a.arts
             /\ archiverCalls' = IF a.invoked THEN Bump(archiverCalls, path)
                                 ELSE archiverCalls
             /\ live' = IF pending = {}
                        THEN AfterArchiving(live.args, file, processed)
                        ELSE [live EXCEPT !.file = file, !.processed = processed,
                                          !.pending = pending]
             /\ lastStep' = [LiveStep("live_archive", path, a.res, live.args)
                               EXCEPT !.invoked = a.invoked]
    /\ UNCHANGED <<tarred, pool, bulk, call, variant, ignoredColumn, db, conn, run, tmp, store, now, runs,
                   deleteCalls>>

\* delete_paths: one future completes
LiveDeleteDone ==
    /\ live.pc = "deleting"
    /\ \E path \in live.delPending, env \in {"ok", "fail", "nolaunch"} :
          LET d == delete_single_path(path, store, env)
              left == live.delPending \ {path}
              issued == IF env = "nolaunch" THEN <<>>
                        ELSE <<[keys |-> SortKeys(UnderDayPath(store, path)),
                                resp |-> env]>>
          IN /\ store' = d.store
             /\ deleteCalls' = deleteCalls \cup
                   CallLog("live", issued, path, live.args,
                           /\ live.file.exists
                           /\ path \in SeqToSet(live.file.content.processed_paths))
             /\ live' = IF left = {} THEN LiveIdle(live.file)
                        ELSE [live EXCEPT !.delPending = left]
             /\ lastStep' = LiveStep("live_delete", path, d.res, live.args)
    /\ UNCHANGED <<tarred, pool, bulk, call, variant, ignoredColumn, db, conn, run, tmp, artifacts, now, runs,
                   archiverCalls>>

----------------------------------------------------------------------------

Next ==
    \/ Import
    \/ StartRun
    \/ ArchiveStep
    \/ DeleteStep
    \/ EndRun
    \/ Tick
    \/ CallGroupedDelete
    \/ LiveStart
    \/ LiveArchiveDone
    \/ LiveDeleteDone

Spec == Init /\ [][Next]_vars

----------------------------------------------------------------------------
(* Actions: delete.py *)

\* the CSVs: the last chunk holds one row or one row more than a slice; at
\* most one row, the first of a chunk, has a cell that is not text
BulkInputs ==
    {[rows |-> (MaxChunks - 1) * CHUNK_SIZE + r, bad |-> bad] :
        r \in {1, THREAD_CHUNK_SIZE + 1},
        bad \in {{}} \cup {{b * CHUNK_SIZE + 1} : b \in 0..(MaxChunks - 1)}}

\* main up to the loop: load the checkpoint, open the CSV
BulkStart ==
    /\ variant = "bulk"
    /\ bulk.pc = "idle"
    /\ bulk.runs < MaxBulkRuns
    /\ bulk' = [bulk EXCEPT !.pc = "loop", !.runs = @ + 1,
                            !.last_batch = load_checkpoint(bulk.file),
                            !.batch_number = 0]
    /\ UNCHANGED <<tarred, pool, call, variant, ignoredColumn, db, conn, run, tmp, store, artifacts,
                   now, runs, archiverCalls, deleteCalls, lastStep, live>>

\* the ledger files are opened in append mode: the lines a run writes are
\* added to those of the runs before it, here told apart by the run
Appended(lines, n) ==
    {[rows |-> l.rows, id |-> l.id, status |-> l.status, run |-> n] : l \in lines}

\* one iteration of the loop over the chunks
BulkChunk ==
    /\ variant = "bulk"
    /\ bulk.pc = "loop"
    /\ bulk.batch_number < NumChunks(bulk.csv)
    /\ IF bulk.batch_number <= bulk.last_batch
       THEN bulk' = [bulk EXCEPT !.batch_number = @ + 1]
       ELSE \E env \in {"ok", "errors", "exception", "unwritten"}, saveOk \in BOOLEAN :
              LET r == ProcessChunk(bulk.csv, bulk.batch_number, env)
              IN bulk' = [bulk EXCEPT
                    !.issued = @ \cup r.issued,
                    !.ledger = @ \cup Appended(r.ledger, bulk.runs),
                    !.file = IF r.raised THEN @   \* except Exception: log
                             ELSE save_checkpoint(@, bulk.batch_number + 1, saveOk),
                    !.batch_number = @ + 1]
    /\ UNCHANGED <<tarred, pool, call, variant, ignoredColumn, db, conn, run, tmp, store, artifacts,
                   now, runs, archiverCalls, deleteCalls, lastStep, live>>

\* the process is stopped between two chunks
BulkCrash ==
    /\ variant = "bulk"
    /\ bulk.pc = "loop"
    /\ bulk' = [bulk EXCEPT !.pc = "idle"]
    /\ UNCHANGED <<tarred, pool, call, variant, ignoredColumn, db, conn, run, tmp, store, artifacts,
                   now, runs, archiverCalls, deleteCalls, lastStep, live>>

\* the process is interrupted (KeyboardInterrupt) while main waits for the
\* threads of a chunk: the threads run to their end, save_checkpoint is not
\* reached
BulkInterrupt ==
    /\ variant = "bulk"
    /\ bulk.pc = "loop"
    /\ bulk.batch_number < NumChunks(bulk.csv)
    /\ bulk.batch_number > bulk.last_batch
    /\ \E r \in {ProcessChunk(bulk.csv, bulk.batch_number, "ok")} :
          /\ ~r.raised
          /\ bulk' = [bulk EXCEPT !.pc = "idle",
                                  !.issued = @ \cup r.issued,
                                  !.ledger = @ \cup Appended(r.ledger, bulk.runs)]
    /\ UNCHANGED <<tarred, pool, call, variant, ignoredColumn, db, conn, run, tmp, store, artifacts,
                   now, runs, archiverCalls, deleteCalls, lastStep, live>>

\* the loop is over: combine_result_files and exit
BulkEnd ==
    /\ variant = "bulk"
    /\ bulk.pc = "loop"
    /\ bulk.batch_number = NumChunks(bulk.csv)
    /\ bulk' = [bulk EXCEPT !.pc = "idle"]
    /\ UNCHANGED <<tarred, pool, call, variant, ignoredColumn, db, conn, run, tmp, store, artifacts,
                   now, runs, archiverCalls, deleteCalls, lastStep, live>>

\* numbers of keys around the batch limits
KeyCounts ==
    {0, 1, batch_size - 1, batch_size, batch_size + 1, MaxKeys - 1, MaxKeys}

BigKey(eq, i) == <<Seg("raw"), KV("k", eq, ToString(i))>>

\* a manifest of n lines, as build_csv writes it
BigManifest(n) == [i \in 1..n |-> ManifestLine(InvRow(BigKey("=", i), 1))]

\* archivev2.delete_object applied once to a manifest of n lines; the j-th
\* delete_objects call gets the answer e, the others succeed
CallDeleteObject ==
    /\ variant = "batch"
    /\ call = NoCall
    /\ \E n \in KeyCounts, j \in 0..3, e \in {"errors", "exception"} :
        \E resp \in {[i \in 1..3 |-> IF i = j THEN e ELSE "ok"]} :
          \E files \in {WriteFile(<<>>, <<"tmp">>, BigManifest(n))} :
            \E d \in {delete_object(files, <<"tmp">>, TRUE, FALSE, resp)} :
              call' = [kept |-> {}, fn |-> "delete_object", n |-> n,
                       sizes |-> [i \in DOMAIN d.calls |-> Len(d.calls[i].keys)],
                       out |-> IF d.ret THEN "True" ELSE "False"]
    /\ UNCHANGED <<tarred, pool, bulk, variant, ignoredColumn, db, conn, run, tmp, store, artifacts,
                   now, runs, archiverCalls, deleteCalls, lastStep, live>>

\* delete.py lines 127-131 applied once to the n paths of one bucket of a chunk
CallThreadChunks ==
    /\ variant = "batch"
    /\ call = NoCall
    /\ \E n \in KeyCounts :
          \E fixed_paths \in {fix_paths([i \in 1..n |-> BigKey("%3D", i)])} :
            \E slices \in {thread_chunks(fixed_paths)} :
              call' = [kept |-> {}, fn |-> "thread_chunks", n |-> n,
                       sizes |-> [i \in DOMAIN slices |-> Len(slices[i])],
                       out |-> IF \A i \in DOMAIN slices : \A j \in DOMAIN slices[i] :
                                     slices[i][j] = BigKey("=", (i - 1) * THREAD_CHUNK_SIZE + j)
                               THEN "fixed" ELSE "other"]
    /\ UNCHANGED <<tarred, pool, bulk, variant, ignoredColumn, db, conn, run, tmp, store, artifacts,
                   now, runs, archiverCalls, deleteCalls, lastStep, live>>

BulkInit ==
    /\ variant \in {"bulk", "batch"}
    /\ ignoredColumn = FALSE
    /\ db = {}
    /\ conn = {}
    /\ run = IdleRun
    /\ tmp = <<>>
    /\ store = InitialStore
    /\ artifacts = {}
    /\ now = FirstNow
    /\ runs = 0
    /\ archiverCalls = <<>>
    /\ deleteCalls = {}
    /\ lastStep = NoStep
    /\ live = LiveIdle(NoFile)
    /\ bulk \in (IF variant = "bulk" THEN {BulkIdle(csv) : csv \in BulkInputs} ELSE {NoBulk})
    /\ call = NoCall
    /\ pool = NoPool
    /\ tarred = {}

BulkNext ==
    \/ BulkStart
    \/ BulkChunk
    \/ BulkCrash
    \/ BulkInterrupt
    \/ BulkEnd
    \/ CallDeleteObject
    \/ CallThreadChunks

BulkSpec == BulkInit /\ [][BulkNext]_vars

----------------------------------------------------------------------------
(* The rules on their edges: the catalog driver, the live pipeline and the  *)
(* CSV filter on the inventories of EdgeFiles                               *)

\* generate.py main on an empty catalog
ImportEdge ==
    /\ variant = "catalog"
    /\ run.stage = "idle"
    /\ db = {}
    /\ \E f \in EdgeFiles :
          /\ db' = process_s3_csv(db, f)
          /\ conn' = db'
    /\ lastStep' = [NoStep EXCEPT !.op = "import"]
    /\ UNCHANGED <<tarred, pool, bulk, call, variant, ignoredColumn, run, tmp, store, artifacts, now, runs,
                   archiverCalls, deleteCalls, live>>

\* generate-files.py main on one inventory
FilterFile ==
    /\ variant = "filter"
    /\ \E f \in EdgeFiles :
          \E r \in {FilterRows(f, now, {})} :
            call' = [fn |-> "generate-files", n |-> Len(f), sizes |-> <<>>,
                     out |-> IF r.raised THEN "raise" ELSE "done", kept |-> r.kept]
    /\ UNCHANGED <<tarred, pool, bulk, variant, ignoredColumn, db, conn, run, tmp, store, artifacts,
                   now, runs, archiverCalls, deleteCalls, lastStep, live>>

RulesInit ==
    /\ variant \in {"catalog", "live", "filter"}
    /\ ignoredColumn = TRUE
    /\ db = {}
    /\ conn = {}
    /\ run = IdleRun
    /\ tmp = <<>>
    /\ store = {normalize_path(r.path) : r \in EdgeListed}
    /\ artifacts = {}
    /\ now = FirstNow
    /\ runs = 0
    /\ archiverCalls = <<>>
    /\ deleteCalls = {}
    /\ lastStep = NoStep
    /\ live = LiveIdle(NoFile)
    /\ bulk = NoBulk
    /\ call = NoCall
    /\ pool = NoPool
    /\ tarred = {}

RulesNext ==
    \/ ImportEdge
    \/ StartRun
    \/ ArchiveStep
    \/ DeleteStep
    \/ EndRun
    \/ Tick
    \/ LiveStart
    \/ LiveArchiveDone
    \/ LiveDeleteDone
    \/ FilterFile

RulesSpec == RulesInit /\ [][RulesNext]_vars

----------------------------------------------------------------------------
(* s3tar.py over a listing of several pages *)

\* list_objects_v2 may put fewer than MaxKeys keys on a page: here two
LiveStartPaged == \E served \in {2} : LiveStartWith(served, MaxPagedRuns)

\* the keys a fresh run lists, in the order of the listing
Listing(st) ==
    SortKeys({k \in st :
        HasPrefix(k, list_top_prefixes(st, PrefixOf(<<Seg("raw")>>, COMPANY), TRUE)[1])})

\* the number of the page of the listing that begins with the first key a
\* run started with the state file f is given; 0 if no page begins with it
ResumePage(f, st, served) ==
    LET pages == Chunks(Listing(st), served)
        rest == ListAfter(Listing(st), load_state(f).continuation_token)
        at == {i \in DOMAIN pages : rest # <<>> /\ pages[i][1] = rest[1]}
    IN IF at = {} THEN 0 ELSE Min(at)

\* the size recorded for a day in a path tree, 0 if the day is not in it
SizeIn(tree, y, m, d) ==
    IF EntryAt(tree, y, m, d) = {} THEN 0 ELSE tree[Min(EntryAt(tree, y, m, d))].size

\* the days two path trees hold together, with the sizes added up
Discovered(t1, t2) ==
    {[year |-> e.year, month |-> e.month, day |-> e.day,
      size |-> SizeIn(t1, e.year, e.month, e.day) + SizeIn(t2, e.year, e.month, e.day)] :
        e \in SeqToSet(t1) \cup SeqToSet(t2)}

\* find_paths is stopped after n pages and the script is started again.
\* how: "error" (the request for page n + 1 raises: the except clause),
\* "max_paths" (the first page holds max_paths = 1 day: the break),
\* "killed" (the process is ended in the loop: lines 261-264 are not run)
ResumeListing ==
    /\ variant = "resume"
    /\ call = NoCall
    /\ \E n \in 1..2, how \in {"error", "max_paths", "killed"}, saveOk \in BOOLEAN :
        /\ how = "max_paths" => n = 1
        /\ \E first \in {CASE how = "error" ->
                                find_paths(NoFile, store, NoPrefix, 100, TRUE, n + 1, saveOk, 2)
                            [] how = "max_paths" ->
                                find_paths(NoFile, store, NoPrefix, 1, TRUE, 0, saveOk, 2)
                            [] OTHER -> [tree |-> <<>>, read |-> n, file |-> NoFile]} :
             \E second \in {find_paths(first.file, store, NoPrefix, 100, TRUE, 0, TRUE, 2)} :
                call' = [fn |-> "resume", n |-> n,
                         sizes |-> <<ResumePage(first.file, store, 2)>>,
                         out |-> IF how = "killed" \/ saveOk THEN how ELSE "unsaved",
                         kept |-> Discovered(first.tree, second.tree)]
    /\ UNCHANGED <<tarred, pool, bulk, variant, ignoredColumn, db, conn, run, tmp, store, artifacts,
                   now, runs, archiverCalls, deleteCalls, lastStep, live>>

\* find_paths and get_valid_paths called once, on a fresh state file or on
\* the one a run left that was stopped after its first page; the call
\* record keeps the number of pages the call read, the number of pages its
\* listing had, the token in the state file afterwards, the last key of
\* the last page read, the paths get_valid_paths returns, and the number
\* of unprocessed days in the tree before the last page read was asked for
FindPathsOnce ==
    /\ variant = "resume"
    /\ call = NoCall
    /\ \E start \in {NoFile, find_paths(NoFile, store, NoPrefix, 100, TRUE, 2, TRUE, 2).file},
          max_paths \in {0, 1, 100}, errAt \in 0..3, saveOk \in BOOLEAN :
        \E pages \in {Chunks(ListAfter(Listing(store), load_state(start).continuation_token), 2)} :
          \E f \in {find_paths(start, store, NoPrefix, max_paths, TRUE, errAt, saveOk, 2)} :
            call' = [fn |-> "find_paths", n |-> f.read, sizes |-> <<Len(pages)>>,
                     out |-> IF saveOk THEN "saved" ELSE "unsaved",
                     kept |-> {[token |-> load_state(f.file).continuation_token,
                                last |-> IF f.read = 0 THEN NoToken
                                         ELSE pages[f.read][Len(pages[f.read])],
                                max_paths |-> max_paths,
                                valid |-> get_valid_paths(f.tree, max_paths, now),
                                before |-> IF f.read = 0 THEN 0
                                           ELSE Unprocessed(find_paths(start, store, NoPrefix,
                                                    100, TRUE, f.read, TRUE, 2).tree)]}]
    /\ UNCHANGED <<tarred, pool, bulk, variant, ignoredColumn, db, conn, run, tmp, store, artifacts,
                   now, runs, archiverCalls, deleteCalls, lastStep, live>>

PagedInit ==
    /\ variant \in {"live", "resume"}
    /\ ignoredColumn = FALSE
    /\ db = {}
    /\ conn = {}
    /\ run = IdleRun
    /\ tmp = <<>>
    /\ store = InitialStore
    /\ artifacts = {}
    /\ now = FirstNow
    /\ runs = 0
    /\ archiverCalls = <<>>
    /\ deleteCalls = {}
    /\ lastStep = NoStep
    /\ live = LiveIdle(NoFile)
    /\ bulk = NoBulk
    /\ call = NoCall
    /\ pool = NoPool
    /\ tarred = {}

PagedNext ==
    \/ LiveStartPaged
    \/ LiveArchiveDone
    \/ LiveDeleteDone
    \/ ResumeListing
    \/ FindPathsOnce

PagedSpec == PagedInit /\ [][PagedNext]_vars

----------------------------------------------------------------------------
(* generate.py: the classifier on keys of two object types, written with   *)
(* = and with %3D, with and without segments before raw/                   *)

ClassifyKeys ==
    {pre \o RawKey(obj, eq, "2024", "01", d, "f1") :
        pre \in {<<>>, <<Seg("acme")>>}, obj \in {"Contact", "Account"},
        eq \in {"=", "%3D"}, d \in {"02", "2", "10"}}

\* generate.py main on an inventory of two rows and an empty catalog
ImportKeys ==
    /\ variant = "classify"
    /\ db = {}
    /\ \E k1 \in ClassifyKeys, k2 \in ClassifyKeys :
          db' = process_s3_csv(db, <<InvRow(k1, 1), InvRow(k2, 1)>>)
    /\ conn' = db'
    /\ lastStep' = [NoStep EXCEPT !.op = "import"]
    /\ UNCHANGED <<tarred, pool, bulk, call, variant, ignoredColumn, run, tmp, store, artifacts, now,
                   runs, archiverCalls, deleteCalls, live>>

\* lines 139-146 of process_s3_csv for one object key written with =, with
\* %3D, and with %3D in its year and day segments only
Classify ==
    /\ variant = "classify"
    /\ call = NoCall
    /\ \E plain \in {k \in ClassifyKeys : \A i \in DOMAIN k : k[i].eq # "%3D"} :
          \E escaped \in {[i \in DOMAIN plain |->
                              IF plain[i].eq = "=" THEN [plain[i] EXCEPT !.eq = "%3D"]
                              ELSE plain[i]]} :
            \E mixed \in {[i \in DOMAIN plain |->
                              IF plain[i].k = "month" THEN plain[i] ELSE escaped[i]]} :
              call' = [fn |-> "classify", n |-> 3, sizes |-> <<>>, out |-> "done",
                       kept |-> {NewRow(InvRow(k, 1), {}) : k \in {plain, escaped, mixed}}]
    /\ UNCHANGED <<tarred, pool, bulk, variant, ignoredColumn, db, conn, run, tmp, store, artifacts,
                   now, runs, archiverCalls, deleteCalls, lastStep, live>>

\* variant: every INSERT is committed at once
RowCommitted(rows, file, chunk_size, k) == process_s3_csv(rows, SubSeq(file, 1, k))

\* the catalog on disk when process_s3_csv stops after the INSERT of row k
\* of the file: conn.commit() follows each chunk of chunk_size rows, the
\* rows inserted since the last commit are rolled back
ChunkCommitted(rows, file, chunk_size, k) ==
    process_s3_csv(rows, SubSeq(file, 1, (k \div chunk_size) * chunk_size))

\* generate.py with --chunk-size on an empty catalog, ended after row k.
\* The call record keeps the file, the chunk size and k.
ImportCrash ==
    /\ variant = "classify"
    /\ call = NoCall
    /\ db = {}
    /\ \E f \in InputFiles, chunk_size \in 1..2, k \in 0..3 :
          /\ k <= Len(f)
          /\ db' = ChunkCommitted(db, f, chunk_size, k)
          /\ call' = [fn |-> "import_crash", n |-> k, sizes |-> <<chunk_size>>,
                      out |-> "crash", kept |-> {f}]
    /\ conn' = db'
    /\ lastStep' = [NoStep EXCEPT !.op = "import_crash", !.outcome = "raise"]
    /\ UNCHANGED <<tarred, pool, bulk, variant, ignoredColumn, run, tmp, store, artifacts, now,
                   runs, archiverCalls, deleteCalls, live>>

\* generate.py is then run again on the same file and gets to its end
ImportRerun ==
    /\ variant = "classify"
    /\ call.fn = "import_crash"
    /\ lastStep.op = "import_crash"
    /\ \E f \in call.kept : db' = process_s3_csv(db, f)
    /\ call' = [call EXCEPT !.fn = "import_rerun", !.out = "done"]
    /\ conn' = db'
    /\ lastStep' = [NoStep EXCEPT !.op = "import_rerun"]
    /\ UNCHANGED <<tarred, pool, bulk, variant, ignoredColumn, run, tmp, store, artifacts, now,
                   runs, archiverCalls, deleteCalls, live>>

\* find_paths and get_valid_paths on a bucket that holds objects of two
\* object types of the same day, with no state file; the call record keeps
\* the entries of the returned tree and the paths get_valid_paths returns
FindOrigins ==
    /\ variant = "classify"
    /\ call = NoCall
    /\ store # {}
    /\ \E f \in {find_paths(NoFile, store, NoPrefix, 100, TRUE, 0, TRUE, PageSize)} :
          call' = [fn |-> "path_tree", n |-> Len(f.tree), sizes |-> <<>>, out |-> "done",
                   kept |-> {[path |-> f.tree[i].path, size |-> f.tree[i].size] :
                                i \in DOMAIN f.tree}]
    /\ UNCHANGED <<tarred, pool, bulk, variant, ignoredColumn, db, conn, run, tmp, store, artifacts,
                   now, runs, archiverCalls, deleteCalls, lastStep, live>>

ClassifyInit ==
    /\ variant = "classify"
    /\ ignoredColumn = FALSE
    /\ db = {}
    /\ conn = {}
    /\ run = IdleRun
    /\ tmp = <<>>
    /\ store \in SUBSET {r.path : r \in OriginRows}
    /\ artifacts = {}
    /\ now = FirstNow
    /\ runs = 0
    /\ archiverCalls = <<>>
    /\ deleteCalls = {}
    /\ lastStep = NoStep
    /\ live = LiveIdle(NoFile)
    /\ bulk = NoBulk
    /\ call = NoCall
    /\ pool = NoPool
    /\ tarred = {}

ClassifyNext ==
    \/ ImportKeys
    \/ Classify
    \/ FindOrigins
    \/ ImportCrash
    \/ ImportRerun

ClassifySpec == ClassifyInit /\ [][ClassifyNext]_vars

----------------------------------------------------------------------------
(* The thread pools of s3tar.py and the threads of delete.py, each worker   *)
(* and the main thread taking its own steps                                *)

Completed(futures, task, res) ==
    [t \in DOMAIN futures \cup {task} |-> IF t = task THEN res ELSE futures[t]]

\* a worker thread of process_paths runs the task of one path to its end
WorkerArchive ==
    /\ live.pc = "archiving"
    /\ \E path \in live.pending \ DOMAIN pool.futures,
          env \in {"ok", "listerr", "fail", "nolaunch"} :
          \E t \in {archive_task(path, store, artifacts, env, live.file)} :
            /\ artifacts' = t.a.arts
            /\ archiverCalls' = IF t.a.invoked THEN Bump(archiverCalls, path)
                                ELSE archiverCalls
            /\ live' = [live EXCEPT !.file = t.file]
            /\ pool' = [futures |-> Completed(pool.futures, path, t.a.res),
                        writes |-> pool.writes \cup
                            (IF t.wrote THEN {[file |-> "state", by |-> "worker"]} ELSE {})]
            /\ lastStep' = [LiveStep("worker_archive", path, t.a.res, live.args)
                              EXCEPT !.invoked = t.a.invoked]
    /\ UNCHANGED <<tarred, bulk, call, variant, ignoredColumn, db, conn, run, tmp, store, now, runs,
                   deleteCalls>>

\* process_paths: the main thread takes a completed future from
\* as_completed and records the path of a successful archive
MainCollect ==
    /\ live.pc = "archiving"
    /\ \E path \in live.pending \cap DOMAIN pool.futures, saveOk \in BOOLEAN :
          LET res == pool.futures[path]
              state == load_state(live.file)
              saves == res = "true" /\ path \notin SeqToSet(state.processed_paths)
              file == IF saves
                      THEN save_state(live.file,
                                      [state EXCEPT !.processed_paths = Append(@, path)],
                                      saveOk)
                      ELSE live.file
              processed == IF res = "true" THEN Append(live.processed, path)
                           ELSE live.processed
              pending == live.pending \ {path}
          IN /\ live' = IF pending = {}
                        THEN AfterArchiving(live.args, file, processed)
                        ELSE [live EXCEPT !.file = file, !.processed = processed,
                                          !.pending = pending]
             /\ pool' = [futures |-> IF pending = {} THEN <<>> ELSE pool.futures,
                         writes |-> pool.writes \cup
                            (IF saves THEN {[file |-> "state", by |-> "main"]} ELSE {})]
             /\ lastStep' = LiveStep("main_collect", path, res, live.args)
    /\ UNCHANGED <<tarred, bulk, call, variant, ignoredColumn, db, conn, run, tmp, store, artifacts,
                   now, runs, archiverCalls, deleteCalls>>

\* the rows of the slice that thread j - 1 of chunk b is given
ThreadRows(csv, b, j) ==
    LET c == ChunkRows(csv, b)
        sl == SliceBounds(c.to - c.from + 1)
    IN [from |-> c.from + sl[j].from, to |-> c.from + sl[j].to - 1]

\* the threads main starts for chunk b, numbered from 1
Threads(csv, b) ==
    LET c == ChunkRows(csv, b) IN DOMAIN SliceBounds(c.to - c.from + 1)

\* a chunk main does not start threads for: it is skipped, or row[0].strip
\* raises
Passed(b) ==
    \/ b.batch_number <= b.last_batch
    \/ \E x \in b.csv.bad : x \in ChunkRows(b.csv, b.batch_number).from
                                    ..ChunkRows(b.csv, b.batch_number).to

\* a thread of delete.py runs delete_objects on its slice to its end; the
\* call of the first thread may raise
ThreadDelete ==
    /\ variant = "bulk"
    /\ bulk.pc = "loop"
    /\ bulk.batch_number < NumChunks(bulk.csv)
    /\ ~Passed(bulk)
    /\ \E j \in Threads(bulk.csv, bulk.batch_number) \ DOMAIN pool.futures,
          env \in {"ok", "exception"} :
          /\ env = "exception" => j = 1
          /\ \E r \in {delete_objects(ThreadRows(bulk.csv, bulk.batch_number, j),
                                       <<bulk.batch_number, j - 1>>, env)} :
                /\ bulk' = [bulk EXCEPT !.issued = @ \cup r.issued,
                                        !.ledger = @ \cup Appended(r.ledger, bulk.runs)]
                /\ pool' = [pool EXCEPT !.futures = Completed(@, j, env)]
    /\ UNCHANGED <<tarred, call, variant, ignoredColumn, db, conn, run, tmp, store, artifacts,
                   now, runs, archiverCalls, deleteCalls, lastStep, live>>

\* main has joined every thread of the chunk and saves the checkpoint
MainJoin ==
    /\ variant = "bulk"
    /\ bulk.pc = "loop"
    /\ bulk.batch_number < NumChunks(bulk.csv)
    /\ ~Passed(bulk)
    /\ DOMAIN pool.futures = Threads(bulk.csv, bulk.batch_number)
    /\ bulk' = [bulk EXCEPT !.file = save_checkpoint(@, bulk.batch_number + 1, TRUE),
                            !.batch_number = @ + 1]
    /\ pool' = [futures |-> <<>>,
                writes |-> pool.writes \cup {[file |-> "checkpoint", by |-> "main"]}]
    /\ UNCHANGED <<tarred, call, variant, ignoredColumn, db, conn, run, tmp, store, artifacts,
                   now, runs, archiverCalls, deleteCalls, lastStep, live>>

\* KeyboardInterrupt reaches main while it waits in join: the except clause
\* calls combine_result_files, which copies the lines the result files
\* hold at that moment, and sys.exit; the threads that are still running
\* end their delete_objects call while the interpreter shuts down.  The
\* call record keeps the lines of the combined file.
MainInterrupt ==
    /\ variant = "bulk"
    /\ bulk.pc = "loop"
    /\ bulk.batch_number < NumChunks(bulk.csv)
    /\ ~Passed(bulk)
    /\ call = NoCall
    /\ \E rest \in {Threads(bulk.csv, bulk.batch_number) \ DOMAIN pool.futures} :
        \E res \in {[j \in rest |->
                        delete_objects(ThreadRows(bulk.csv, bulk.batch_number, j),
                                       <<bulk.batch_number, j - 1>>, "ok")]} :
          /\ call' = [fn |-> "combine_result_files", n |-> Cardinality(rest),
                      sizes |-> <<>>, out |-> "exit", kept |-> bulk.ledger]
          /\ bulk' = [bulk EXCEPT
                        !.pc = "interrupted",
                        !.issued = @ \cup UNION {res[j].issued : j \in rest},
                        !.ledger = @ \cup Appended(UNION {res[j].ledger : j \in rest},
                                                   bulk.runs)]
          /\ pool' = [pool EXCEPT !.futures = [j \in DOMAIN @ \cup rest |->
                                                  IF j \in rest THEN "ok" ELSE @[j]]]
    /\ UNCHANGED <<tarred, variant, ignoredColumn, db, conn, run, tmp, store, artifacts,
                   now, runs, archiverCalls, deleteCalls, lastStep, live>>

\* main goes on to the next chunk without having started a thread
BulkPass ==
    /\ variant = "bulk"
    /\ bulk.pc = "loop"
    /\ bulk.batch_number < NumChunks(bulk.csv)
    /\ Passed(bulk)
    /\ bulk' = [bulk EXCEPT !.batch_number = @ + 1]
    /\ UNCHANGED <<tarred, pool, call, variant, ignoredColumn, db, conn, run, tmp, store, artifacts,
                   now, runs, archiverCalls, deleteCalls, lastStep, live>>

ThreadInit ==
    /\ variant \in {"live", "bulk"}
    /\ ignoredColumn = FALSE
    /\ db = {}
    /\ conn = {}
    /\ run = IdleRun
    /\ tmp = <<>>
    /\ store = InitialStore
    /\ artifacts = {}
    /\ now = FirstNow
    /\ runs = 0
    /\ archiverCalls = <<>>
    /\ deleteCalls = {}
    /\ lastStep = NoStep
    /\ live = LiveIdle(NoFile)
    /\ bulk \in (IF variant = "bulk" THEN {BulkIdle(csv) : csv \in BulkInputs} ELSE {NoBulk})
    /\ call = NoCall
    /\ pool = NoPool
    /\ tarred = {}

ThreadNext ==
    \/ LiveStart
    \/ WorkerArchive
    \/ MainCollect
    \/ LiveDeleteDone
    \/ BulkStart
    \/ ThreadDelete
    \/ MainJoin
    \/ MainInterrupt
    \/ BulkPass
    \/ BulkEnd

ThreadSpec == ThreadInit /\ [][ThreadNext]_vars

----------------------------------------------------------------------------

TypeOK == run.stage \in {"idle", "archive", "delete"}

----------------------------------------------------------------------------
(* Properties *)

Members(rows, dst) == {r.path : r \in {q \in rows : q.destination_path = dst}}

Flags(rows) == {<<r.path, r.archived, r.deleted>> : r \in rows}

\* the step being taken is an iteration of the archive loop
ArchiveIteration == run.stage = "archive" /\ run.work # <<>>

C2_DeleteOnlyRecorded ==
    \A c \in deleteCalls : c.prog \in {"catalog", "live"} => c.recorded

\* C3: delete_object reports success, on which the delete stage commits
\* deleted = 1, only if no delete_objects call raised or answered with a
\* per-key error.
C3_SuccessOnlyIfAllDeleted ==
    (lastStep.op \in {"delete", "call_delete_object"}
        /\ lastStep.outcome \in {"true", "deleted"})
    => lastStep.resps \subseteq {"ok"}

\* C4: the keys sent to the remote delete calls made for a group are exactly
\* the member keys the catalog records for that group.
C4_DeletesExactlyMembers ==
    (lastStep.op \in {"delete", "call_delete_object"} /\ lastStep.resps # {})
    => lastStep.keys = Members(db, lastStep.dst)

\* C5: no step removes a committed row or takes one of its flags archived,
\* deleted, ignored from 1 back to 0.
C5_FlagsMonotonic ==
    [][\A r \in db : \E q \in db' :
          /\ q.path = r.path
          /\ q.archived >= r.archived
          /\ q.deleted >= r.deleted
          /\ q.ignored >= r.ignored]_vars

\* a path whose row carries a flag has been imported again
C5_Witness ==
    /\ lastStep.op = "import"
    /\ \E r \in db : r.archived = 1
    /\ \E r \in db : r.ignored = 1

\* C6: once a row has committed ignored = 1, no later step changes its
\* archived or deleted flag.
C6_IgnoredIsTerminal ==
    [][\A r \in db : r.ignored = 1 =>
          \A q \in db' : q.path = r.path =>
              q.archived = r.archived /\ q.deleted = r.deleted]_vars

\* C7: after an iteration that found the group's manifest empty, the rows of
\* the group have committed ignored = 1.
C7_EmptyManifestIgnored ==
    (lastStep.op = "archive" /\ lastStep.outcome = "empty")
    => \A r \in db : r.destination_path = lastStep.dst => r.ignored = 1

\* C8: an archive iteration over a group whose archive object is in the
\* store, with the store answering the probe, does not invoke the archiver.
C8_ProbeSkipsArchiver ==
    [][(/\ ArchiveIteration
        /\ ~run.cfg.dry_run
        /\ ArchiveKey(full_dst_path(run.cfg.bucket, Index0(Head(run.work)).v))
              \in artifacts
        /\ lastStep'.probe \in {"hit", "miss"})
       => ~lastStep'.invoked]_vars

\* C9: a step taken with dry-run enabled invokes no archiver, issues no
\* remote delete call, changes no object, and leaves every archived and
\* deleted flag of the catalog as it was.
C9_DryRunNoEffect ==
    [][lastStep'.dry_run =>
          /\ archiverCalls' = archiverCalls
          /\ deleteCalls' = deleteCalls
          /\ store' = store
          /\ artifacts' = artifacts
          /\ Flags(db') = Flags(db)
          /\ Flags(conn') = Flags(conn)]_vars

\* a dry run has gone through archive_object for a group
C9_Witness ==
    /\ lastStep.dry_run
    /\ lastStep.op = "archive"
    /\ lastStep.outcome = "simulated"

\* C10 as stated: no remote delete call is logged for a run without --delete,
\* and delete_object called with delete disabled returns false.
C10_NoDeleteWithoutFlag ==
    /\ \A c \in deleteCalls : c.deleteFlag
    /\ (lastStep.op = "call_delete_object" /\ ~lastStep.deleteFlag)
         => lastStep.outcome = "false"

\* C10, amended: no remote delete call is logged for a run without --delete;
\* delete_object called with delete disabled issues no call, and returns
\* false unless dry-run is enabled (it then returns true).
C10_NoDeleteWithoutFlagAmended ==
    /\ \A c \in deleteCalls : c.deleteFlag
    /\ (lastStep.op = "call_delete_object" /\ ~lastStep.deleteFlag)
         => /\ lastStep.resps = {}
            /\ lastStep.outcome = (IF lastStep.dry_run THEN "true" ELSE "false")

\* delete_object has been called with delete and dry-run both disabled
C10_Witness ==
    /\ lastStep.op = "call_delete_object"
    /\ ~lastStep.deleteFlag
    /\ ~lastStep.dry_run
    /\ lastStep.outcome = "false"

\* C11: no remote delete call carries more than 1000 keys: the grouped
\* delete sends its batches of at most 1000 keys, and the bulk delete hands
\* each worker, and so each call, a slice of at most 1000 rows.
C11_DeleteCallsAtMost1000 ==
    /\ \A i \in DOMAIN call.sizes : call.sizes[i] <= 1000
    /\ \A r \in bulk.issued : r.to - r.from + 1 <= 1000

\* a manifest of more than 1000 keys went out as a full batch and a rest
C11_Witness ==
    /\ call.fn = "delete_object"
    /\ call.n > 1000
    /\ Len(call.sizes) >= 2
    /\ call.sizes[1] = 1000

Cataloged(rows, f) ==
    \A i \in DOMAIN f : \E x \in rows : x.path = normalize_path(f[i].path)

\* C12: importing the same input twice yields the same catalog as importing
\* it once; an input whose paths are all cataloged already (each INSERT hits
\* the UNIQUE constraint) is skipped silently and changes nothing.
C12_ImportIdempotent ==
    \A f \in InputFiles :
        /\ process_s3_csv(process_s3_csv(db, f), f) = process_s3_csv(db, f)
        /\ Cataloged(db, f) => process_s3_csv(db, f) = db

\* an import has run after both files were imported and archived from
C12_Witness ==
    /\ lastStep.op = "import"
    /\ \A f \in InputFiles : Cataloged(db, f)
    /\ \E x \in db : x.day = "10"
    /\ \A x \in db : x.day = "10" => x.archived = 1

\* the columns of a row other than archived, deleted and ignored
NonFlag(r) ==
    [id |-> r.id, path |-> r.path, bucket |-> r.bucket, year |-> r.year,
     month |-> r.month, day |-> r.day, origin |-> r.origin,
     destination_path |-> r.destination_path, size |-> r.size, date |-> r.date]

\* C13: a catalog row, once inserted, is never deleted and its non-flag
\* attributes (path, bucket, year, month, day, origin, destination_path,
\* size, date) are never changed by import, archive or delete; a re-import
\* leaves the flags of the rows unchanged too.
C13_RowsKept ==
    [][/\ {NonFlag(r) : r \in db} \subseteq {NonFlag(r) : r \in db'}
       /\ {NonFlag(r) : r \in conn} \subseteq {NonFlag(r) : r \in conn'}
       /\ \A q \in db' : \A r \in db : q.path = r.path => NonFlag(q) = NonFlag(r)
       /\ lastStep'.op = "import" => db \subseteq db']_vars

\* a row that both inventory files list was archived and an import followed
C13_Witness ==
    /\ lastStep.op = "import"
    /\ \E r \in db : r.size = 10 /\ r.archived = 1

\* the text of a day component names the first day of a month
DayOne(tok) == tok \in DigitTokens /\ ToInt(tok) = 1

\* C14: a partition whose day component is 1 (written day=1 or day=01) is
\* never archived by any variant: the catalog driver never flags its rows
\* archived, the live pipeline never archives its path, and the CSV filter
\* writes none of its rows to the output files.
C14_FirstDayNeverArchived ==
    /\ \A r \in db : DayOne(r.day) => r.archived = 0
    /\ lastStep.op = "live_archive" =>
          \A i \in DOMAIN lastStep.dst :
              lastStep.dst[i].k = "day" => ~DayOne(lastStep.dst[i].v)
    /\ \A r \in call.kept : ~DayOne(extract_date_parts(r.path)[3])

\* age in whole days, on day today, of the partition with date parts dp
Age(dp, today) == today - Ordinal(ToInt(dp[1]), ToInt(dp[2]), ToInt(dp[3]))

\* C15: a partition is eligible only if its age in whole days is strictly
\* greater than 90: the rows the catalog driver has archived, the paths the
\* live validator returned as valid and the rows the CSV filter kept are
\* all older than 90 days.
C15_OnlyOlderThan90 ==
    /\ \A r \in db : r.archived = 1 => Age(<<r.year, r.month, r.day>>, now) > 90
    /\ lastStep.op = "live_start" =>
          \A path \in lastStep.keys : Age(extract_date_parts(path), now) > 90
    /\ \A r \in call.kept : Age(extract_date_parts(r.path), now) > 90

\* C16: classification and validation never raise: for any path, also one
\* whose year, month, day or origin is unknown, the archive iteration of
\* its group does not end in an exception of the validation, the group is
\* ignored after it, and the CSV filter completes.
C16_ValidationNeverRaises ==
    /\ (lastStep.op = "archive" /\ lastStep.probe = "none" /\ ~lastStep.invoked)
          => lastStep.outcome # "raise"
    /\ lastStep.op = "archive" =>
          \A r \in conn :
              (r.destination_path = lastStep.dst /\ r.year = "unknown") => r.ignored = 1
    /\ call.fn = "generate-files" => call.out # "raise"

\* C17: a failure while processing one group (archiver exit code, archiver
\* that cannot be launched, probe error, validation failure, remote delete
\* error) never aborts the run: after the iteration of a group the run is
\* in the same stage with the remaining selected groups still to attempt.
C17_FailureDoesNotAbort ==
    [][(run.stage \in {"archive", "delete"} /\ run.work # <<>>)
          => (run'.stage = run.stage /\ run'.work = Tail(run.work))]_vars

GroupFlags(rows, dst) ==
    {<<r.path, r.archived, r.deleted, r.ignored>> :
        r \in {q \in rows : q.destination_path = dst}}

\* C18: an archive iteration in which the existence probe fails with an
\* error other than 404, or in which the archiver runs and leaves no
\* archive behind, changes no flag of the group: archived stays 0, and
\* deleted and ignored stay as they were, committed and uncommitted.
C18_FailedArchiveKeepsFlags ==
    [][(/\ ArchiveIteration
        /\ \/ lastStep'.probe = "error"
           \/ /\ lastStep'.invoked
              /\ ArchiveKey(full_dst_path(run.cfg.bucket, Index0(Head(run.work)).v))
                    \notin artifacts')
       => /\ GroupFlags(db', Index0(Head(run.work)).v)
                = GroupFlags(db, Index0(Head(run.work)).v)
          /\ GroupFlags(conn', Index0(Head(run.work)).v)
                = GroupFlags(conn, Index0(Head(run.work)).v)]_vars

\* the archiver ran for a group and exited with an error
C18_Witness ==
    /\ lastStep.op = "archive"
    /\ lastStep.outcome = "failed"
    /\ lastStep.invoked
    /\ \E r \in db : r.destination_path = lastStep.dst /\ r.archived = 0

\* C19: whenever the checkpoint records last_completed_batch = b, every key
\* of every chunk 0..b has had a remote delete issued and an outcome
\* written to the ledger: no chunk is passed by the checkpoint without
\* having been processed, also not a chunk whose processing raised.
C19_CheckpointCoversChunks ==
    (bulk.file.exists /\ bulk.file.last_completed_batch >= 0) =>
        \A x \in 1..ChunkRows(bulk.csv, bulk.file.last_completed_batch).to :
            /\ \E r \in bulk.issued : x \in r.from..r.to
            /\ \E l \in bulk.ledger : x \in l.rows.from..l.rows.to

\* the day paths that a run started now with the state file f would list as
\* valid, the listing not failing and not cut off
ValidFrom(f) ==
    SeqToSet(get_valid_paths(find_paths(f, store, NoPrefix, 100, TRUE, 0, TRUE,
                                        PageSize).tree,
                             100, now))

\* C20: the continuation token is persisted only after the partitions of
\* the pages it skips have been archived: whenever the pipeline is at rest
\* (after a finished run, an archive failure or a max_paths cut-off), a
\* restarted run still lists every eligible partition of the bucket that
\* has no archive yet.
C20_RestartListsUnarchived ==
    live.pc = "idle" =>
        \A path \in ValidFrom(NoFile) :
            path \in ValidFrom(live.file) \/ LiveArchiveKey(path) \in artifacts

\* C21: a discovery run stopped after n pages and then resumed finds, over
\* the two runs, the same partitions with the same sizes as one
\* uninterrupted run over the listing, and the restart begins at page
\* n + 1: not at page 1, not at a later page.
C21_ResumeAtNextPage ==
    call.fn = "resume" =>
        /\ call.sizes = <<call.n + 1>>
        /\ call.kept = Discovered(find_paths(NoFile, store, NoPrefix, 100, TRUE, 0, TRUE,
                                             2).tree, <<>>)

\* C22: a restarted bulk delete skips exactly the chunks with index <=
\* last_completed_batch and processes every later chunk, and when a run has
\* gone through the whole CSV the ledger holds exactly one entry for every
\* input key, wherever an earlier run was interrupted.
C22_OneLedgerEntryPerKey ==
    /\ (bulk.pc = "loop" /\ bulk.batch_number > 0) =>
          \A b \in 0..(bulk.batch_number - 1) :
              (\E l \in bulk.ledger : l.run = bulk.runs /\ l.id[1] = b) <=> b > bulk.last_batch
    /\ (bulk.pc = "idle" /\ bulk.runs > 0 /\ bulk.batch_number = NumChunks(bulk.csv)) =>
          \A x \in 1..bulk.csv.rows :
              Cardinality({l \in bulk.ledger : x \in l.rows.from..l.rows.to}) = 1

\* C23: the state file of the live pipeline and the checkpoint of the bulk
\* delete are written by the main thread only: no write is made by a
\* worker thread, and a step of a worker leaves both files as they were;
\* with one writing thread no two writes interleave.
C23_OnlyMainWritesCheckpoint ==
    [][/\ \A w \in pool'.writes : w.by = "main"
       /\ (DOMAIN pool'.futures # DOMAIN pool.futures /\ pool'.futures # <<>>)
             => (live'.file = live.file /\ bulk'.file = bulk.file)]_vars

\* both workers of a run have archived their path, the main thread has
\* written the state file for the first and not yet taken the second
C23_Witness ==
    /\ live.pc = "archiving"
    /\ live.pending \subseteq DOMAIN pool.futures
    /\ \A p \in live.pending : pool.futures[p] = "true"
    /\ [file |-> "state", by |-> "main"] \in pool.writes

\* the segments of a key between the raw root marker and the first date
\* segment
ObjectSegs(p) ==
    LET raw == Min({j \in DOMAIN p : p[j] = Seg("raw")})
        year == Min({j \in DOMAIN p : p[j].k = "year"})
    IN SubSeq(p, raw + 1, year - 1)

\* C24: raw/acme/short/Contact/year=2024/month=01/day=02/appflow/f is
\* classified with origin acme/short/Contact and partition (2024, 1, 2);
\* the origin of every row is the whole segment sequence between the raw
\* marker and the first date segment, and rows of different object types
\* have different destination paths.
C24_OriginKeepsObjectType ==
    /\ \A r \in db :
          r.path = RawKey("Contact", "=", "2024", "01", "02", "f1") =>
              /\ r.origin = <<"acme", "short", "Contact">>
              /\ <<ToInt(r.year), ToInt(r.month), ToInt(r.day)>> = <<2024, 1, 2>>
    /\ \A r \in db : r.origin = JoinSegs(ObjectSegs(r.path))
    /\ \A r1 \in db, r2 \in db :
          ObjectSegs(r1.path) # ObjectSegs(r2.path)
              => r1.destination_path # r2.destination_path

\* C25: the importer replaces every %3D of a path by = before it classifies
\* the path, and normalizing the result again changes nothing; a key
\* written with %3D, with = or with both gets the same path, partition,
\* origin and destination path, and its date is recognized.
C25_EscapedClassifiedAlike ==
    call.fn = "classify" =>
        /\ Cardinality(call.kept) = 1
        /\ \A r \in call.kept :
              /\ \A i \in DOMAIN r.path : r.path[i].eq # "%3D"
              /\ normalize_path(r.path) = r.path
              /\ {r.year, r.month, r.day} \subseteq DigitTokens

\* the three spellings of a key of the first day after the threshold have
\* been classified
C25_Witness ==
    /\ call.fn = "classify"
    /\ call.n = 3
    /\ \E r \in call.kept : r.day = "10" /\ r.path[1] = Seg("raw")

C27_DeleteRunCompletes ==
    (lastStep.op = "delete" /\ lastStep.deleteFlag /\ ~lastStep.dry_run) =>
        /\ lastStep.outcome # "raise"
        /\ (lastStep.keys # {} /\ lastStep.resps \subseteq {"ok"}) =>
              \A r \in db : r.destination_path = lastStep.dst => r.deleted = 1

\* C28: in every reachable state the committed rows that share one
\* destination_path carry the same archived, deleted and ignored values.
C28_GroupFlagsUniform ==
    \A r, q \in db :
        r.destination_path = q.destination_path =>
            /\ r.archived = q.archived
            /\ r.deleted = q.deleted
            /\ r.ignored = q.ignored

\* C29: when a run of the archive or delete stage ends, every row the
\* process marked ignored = 1 (validate_destination_path rejected its
\* group) has ignored = 1 in the committed catalog, so that the next run
\* does not select the group.
C29_RejectedGroupsCommitted ==
    [][(run.stage \in {"archive", "delete"} /\ run'.stage = "idle") =>
          \A r \in conn' \cup conn :
              r.ignored = 1 =>
                  /\ \E q \in db' : q.path = r.path /\ q.ignored = 1
                  /\ r.destination_path \notin SelectGroups(db', 0, 0)
                  /\ r.destination_path \notin SelectGroups(db', 1, 0)]_vars

\* C30: after an iteration of the archive or delete stage, whatever its
\* outcome (archived, failed, raised, empty manifest), no manifest file
\* is left in the tmp directory.
C30_NoManifestLeft ==
    lastStep.op \in {"archive", "delete"} => DOMAIN tmp = {}

\* C31: a run of the bulk delete does not skip a chunk for which an earlier
\* run wrote a ledger line with an error outcome: the chunk is processed
\* again, so a new remote delete request goes out for its keys.
C31_FailedKeysRetried ==
    [][(/\ bulk.pc = "loop"
        /\ bulk'.batch_number = bulk.batch_number + 1
        /\ \E l \in bulk.ledger :
              /\ l.run < bulk.runs
              /\ l.status # "deleted"
              /\ l.id[1] = bulk.batch_number)
       => bulk.batch_number > bulk.last_batch]_vars

\* C32: after find_paths has returned and saved its state, the saved token
\* designates the page after the last page the call read; it is null when
\* the call read its listing to the end or read no page.
C32_TokenNamesNextPage ==
    (call.fn = "find_paths" /\ call.out = "saved") =>
        \A x \in call.kept :
            x.token = (IF call.n = 0 \/ call.n = call.sizes[1] THEN NoToken ELSE x.last)

\* C33: a dry run of the live pipeline leaves the contents of the state
\* file (processed_paths, last_prefix, continuation_token) as they were.
C33_DryRunKeepsState ==
    [][(lastStep'.op = "live_start" /\ lastStep'.dry_run) =>
          load_state(live'.file) = load_state(live.file)]_vars

\* the day paths (company/short/object type/year/month/day) of the objects
\* of a bucket
DayPaths(st) == {ObjInfoTable[k].day_path : k \in {x \in st : ObjInfoTable[x].ok}}

RECURSIVE TotalSize(_)
TotalSize(keys) ==
    IF keys = {} THEN 0
    ELSE LET k == CHOOSE x \in keys : TRUE IN SizeOf(k) + TotalSize(keys \ {k})

\* C34: every partition of the scanned bucket with a total size above zero
\* has an entry of its own in the tree find_paths returns, with its path
\* and the total size of its objects: partitions of different origins on
\* the same day are not merged.
C34_PartitionsKeptApart ==
    call.fn = "path_tree" =>
        \A p \in DayPaths(store) :
            \E e \in call.kept :
                /\ e.path = p
                /\ e.size = TotalSize({k \in store : ObjInfoTable[k].day_path = p})

\* C35: when the bulk delete has been interrupted and the process has
\* ended, the combined results file holds a line for every slice of keys
\* for which a delete request was issued, and the checkpoint does not
\* record the interrupted chunk as completed.
C35_InterruptFlushesLedger ==
    bulk.pc = "interrupted" =>
        /\ \A r \in bulk.issued : \E l \in call.kept : l.rows = r
        /\ load_checkpoint(bulk.file) < bulk.batch_number

\* C36: every row an import adds to the catalog has archived = 0,
\* deleted = 0 and ignored = 0, and the selection of an archive run over
\* the imported catalog does not fail: the run starts with the groups that
\* satisfy archived = 0 AND deleted = 0 AND ignored = 0.
C36_ImportedGroupsSelectable ==
    [][/\ lastStep'.op = "import" =>
             \A r \in db' \ db : r.archived = 0 /\ r.deleted = 0 /\ r.ignored = 0
       /\ (lastStep'.op = "start" /\ ~lastStep'.deleteFlag /\ db # {}) =>
             lastStep'.outcome # "raise"]_vars

C38_MaxPathsCaps ==
    call.fn = "find_paths" =>
        \A x \in call.kept :
            /\ call.n >= 2 => x.before < x.max_paths
            /\ Len(x.valid) <= x.max_paths

====
